---- MODULE Spec2Model ----
(***************************************************************************)
(* A model of the structural-inference core of the PDF parser:             *)
(*   distribute_questions      src/src/pdf/content_extractor.py            *)
(*   find_page_offset          src/src/pdf/page_analyzer.py                *)
(*   extract_chapter_sections  src/src/pdf/content_extractor.py            *)
(* Each function has a specification of its own (SpecDQ, SpecOffset,       *)
(* SpecExtract): Init draws the call's arguments from bounded sets and the *)
(* actions run the function's body, one loop iteration at a time.          *)
(***************************************************************************)
EXTENDS Integers, Sequences, FiniteSets, TLC

VARIABLES
    \* distribute_questions
    dq_lengths,             \* len(content) of each value of extracted_sections, in dict order
    dq_total,               \* total_questions
    questions_per_section,  \* the returned dict, as a sequence in dict order
    dq_pc,
    \* find_page_offset
    off_doc,                \* the document behind pdf.pages (see pdf_page_text)
    structured_toc,         \* structured_toc['entries']
    last_toc_page,
    pdf_page_number,        \* the loop variable over search_range
    potential_offsets,      \* list of (offset, source)
    off_pages_read,         \* indices i for which pdf.pages[i] was fetched
    off_return,             \* the returned offset, once off_pc = "returned"
    off_error,              \* the ValueError's message, once off_pc = "raised"
    off_pc,
    \* extract_chapter_sections
    ex_doc,                 \* the document behind pdf.pages (see ex_page)
    ex_toc,                 \* structured_toc['entries']
    page_offset,
    desired_chapter,
    max_tokens,
    total_questions,
    chapter_sections,
    pdf_limit,
    section_index,          \* i + 1 for the loop variable i of enumerate(chapter_sections)
    batch_start,            \* the loop variable over range(start_page, end_page, batch_size)
    section_texts,
    extracted_sections,     \* the dict, as a sequence of [key, text] in insertion order
    question_distribution,
    ex_requested,           \* <<section_index, page_num>> for every page_num of a batch
    ex_fetched,             \* <<section_index, page_num, physical index>> for every pdf.pages[page_num] obtained
    ex_error,               \* the exception leaving the function, once ex_pc = "raised"
    ex_pc,
    \* find_toc_pages
    toc_doc,                \* the document behind pdf.pages (see extract_words)
    toc_start_page,         \* the probe's result, -1 for None
    toc_pages,              \* the page set of the strategy that ran last
    valid_entries,          \* the count the validation of that page set reached
    toc_tried,              \* the strategies run so far, in order
    toc_return,             \* the returned page set, once toc_pc = "returned"
    toc_pc,
    \* extract_chapter
    ec_pdf,                 \* the document pdfplumber.open(pdf_path) yields
    ec_stages,              \* what the later stages would do with this document
    ec_toc_pages,           \* toc_pages
    ec_last_toc_page,       \* last_toc_page
    ec_pending,             \* the exception on its way to the except clause
    ec_return,              \* the returned dictionary, once ec_pc = "returned"
    ec_error,               \* the exception leaving the function, once ec_pc = "raised"
    ec_pc,
    \* ResourceMonitor, and the loops of extract_chapter_sections it paces
    rm_cpu,                 \* cpu_percent of the last check_resources
    rm_memory,              \* memory_percent of the last check_resources
    rm_sleeps,              \* calls of time.sleep so far
    rm_target,              \* the body guarded by the throttle in progress
    rm_page,                \* pages of the current batch already processed
    rm_pc

dqVars == <<dq_lengths, dq_total, questions_per_section, dq_pc>>

offVars == <<off_doc, structured_toc, last_toc_page, pdf_page_number,
             potential_offsets, off_pages_read, off_return, off_error, off_pc>>

exVars == <<ex_doc, ex_toc, page_offset, desired_chapter, max_tokens, total_questions,
            chapter_sections, pdf_limit, section_index, batch_start, section_texts,
            extracted_sections, question_distribution, ex_requested, ex_fetched,
            ex_error, ex_pc>>

tocVars == <<toc_doc, toc_start_page, toc_pages, valid_entries, toc_tried,
             toc_return, toc_pc>>

ecVars == <<ec_pdf, ec_stages, ec_toc_pages, ec_last_toc_page, ec_pending, ec_return, ec_error, ec_pc>>

rmVars == <<rm_cpu, rm_memory, rm_sleeps, rm_target, rm_page, rm_pc>>

vars == <<dqVars, offVars, exVars, tocVars, ecVars, rmVars>>

-----------------------------------------------------------------------------
(* Sequence helpers.                                                       *)

RECURSIVE SumSeq(_)
SumSeq(s) == IF s = <<>> THEN 0 ELSE Head(s) + SumSeq(Tail(s))

Min2(a, b) == IF a <= b THEN a ELSE b

Max2(a, b) == IF a >= b THEN a ELSE b

-----------------------------------------------------------------------------
(* distribute_questions.                                                   *)

\* Bounds of the calls explored.
MaxSections == 3
MaxTotalQuestions == 7

\* Content lengths a section may have (0: an empty string).
Lengths == {0, 1, 2, 5}

min_questions == 1

\* int(proportion * remaining_questions) with proportion = len(content) / total_chars.
\* Python evaluates both operations in IEEE 754 doubles (53-bit significand,
\* round to nearest even).  The operators below give the truncated double
\* result in integer arithmetic.

RECURSIVE floor_log2(_)
\* e with 2^e <= n < 2^(e+1), for n >= 1.
floor_log2(n) ==
    IF n < 2 THEN 0 ELSE 1 + floor_log2(n \div 2)

RECURSIVE binade(_, _)
\* k with 2^-k <= len / total_chars < 2^(1-k), for 1 <= len <= total_chars.
binade(len, total_chars) ==
    IF len >= total_chars THEN 0 ELSE 1 + binade(2 * len, total_chars)

RECURSIVE pow2_mod(_, _)
\* 2^n modulo m.
pow2_mod(n, m) ==
    IF n = 0 THEN 1 % m ELSE (2 * pow2_mod(n - 1, m)) % m

\* What the division len / total_chars leaves out: the quotient's significand
\* has 53 bits, so the quotient is a multiple of 2^-(52+k) in binade k, and
\* the residue is (len * 2^(52+k)) mod total_chars.
division_residue(len, total_chars) ==
    (len * pow2_mod(52 + binade(len, total_chars), total_chars)) % total_chars

\* The double product proportion * remaining_questions is below the exact
\* share.  That needs an exact share E that is an integer, a quotient rounded
\* down (residue below half of total_chars), and a shortfall of the product
\* above half the distance from E to the double just below it (a quarter when
\* E is a power of two).
product_rounds_below(len, total_chars, remaining_questions) ==
    /\ len > 0
    /\ remaining_questions > 0
    /\ (len * remaining_questions) % total_chars = 0
    /\ LET E == (len * remaining_questions) \div total_chars
           k == binade(len, total_chars)
           e == floor_log2(E)
           residue == division_residue(len, total_chars)
       IN /\ residue > 0
          /\ 2 * residue < total_chars
          /\ IF E = 2^e
             THEN 4 * residue * remaining_questions > total_chars * 2^(e + k)
             ELSE 2 * residue * remaining_questions > total_chars * 2^(e + k)

\* The exact truncated share, floor(len * remaining_questions / total_chars).
exact_floor(len, total_chars, remaining_questions) ==
    (len * remaining_questions) \div total_chars

additional_questions(len, total_chars, remaining_questions) ==
    exact_floor(len, total_chars, remaining_questions)
        - (IF product_rounds_below(len, total_chars, remaining_questions) THEN 1 ELSE 0)

\* The even-split branch: total_questions // len(extracted_sections) for every section.
even_split(lengths, total) ==
    [i \in 1..Len(lengths) |-> total \div Len(lengths)]

\* The loop over the sections: min_questions plus the truncated proportional share.
proportional_share(lengths, total) ==
    LET total_chars == SumSeq(lengths)
        remaining_questions == total - Len(lengths) * min_questions
    IN [i \in 1..Len(lengths) |->
           min_questions +
           IF total_chars > 0
           THEN additional_questions(lengths[i], total_chars, remaining_questions)
           ELSE 0]

\* Position (1-based) of section i in sorted(items, key=len, reverse=True):
\* Python's sort is stable, also with reverse=True, so ties keep dict order.
sections_by_length_rank(lengths, i) ==
    1 + Cardinality({j \in 1..Len(lengths) :
                        \/ lengths[j] > lengths[i]
                        \/ lengths[j] = lengths[i] /\ j < i})

\* The leftover loop: one more question for each of the first `remaining`
\* sections of sections_by_length; the loop ends with the list.
distribute_leftover(lengths, total, shares) ==
    LET remaining == total - SumSeq(shares)
    IN [i \in 1..Len(lengths) |->
           shares[i] +
           IF remaining > 0 /\ sections_by_length_rank(lengths, i) <= remaining
           THEN 1 ELSE 0]

\* Mutant of distribute_questions: no question is reserved for each section,
\* all of total_questions are shared out in proportion to the lengths.
distribute_questions_no_reserve(lengths, total) ==
    LET total_chars == SumSeq(lengths)
        shares == [i \in 1..Len(lengths) |->
                      IF total_chars > 0
                      THEN additional_questions(lengths[i], total_chars, total)
                      ELSE 0]
    IN IF Len(lengths) * min_questions > total
       THEN even_split(lengths, total)
       ELSE distribute_leftover(lengths, total, shares)

distribute_questions(lengths, total) ==
    LET reserved_questions == Len(lengths) * min_questions
    IN IF reserved_questions > total
       THEN even_split(lengths, total)
       ELSE distribute_leftover(lengths, total,
                                proportional_share(lengths, total))

SectionLengths == UNION {[1..n -> Lengths] : n \in 0..MaxSections}

DQIdle ==
    /\ dq_lengths = <<>>
    /\ dq_total = 0
    /\ questions_per_section = <<>>
    /\ dq_pc = "idle"

OffIdle ==
    /\ off_doc = [numPages |-> 0]
    /\ structured_toc = <<>>
    /\ last_toc_page = 0
    /\ pdf_page_number = 0
    /\ potential_offsets = <<>>
    /\ off_pages_read = {}
    /\ off_return = 0
    /\ off_error = ""
    /\ off_pc = "idle"

TocIdle ==
    /\ toc_doc = <<>>
    /\ toc_start_page = -1
    /\ toc_pages = {}
    /\ valid_entries = 0
    /\ toc_tried = <<>>
    /\ toc_return = {}
    /\ toc_pc = "idle"

EcIdle ==
    /\ ec_pdf = <<>>
    /\ ec_stages = [structures |-> FALSE, offset_resolves |-> FALSE, chapter_exists |-> FALSE]
    /\ ec_toc_pages = {}
    /\ ec_last_toc_page = -1
    /\ ec_pending = ""
    /\ ec_return = <<>>
    /\ ec_error = [type |-> "", cause |-> ""]
    /\ ec_pc = "idle"

RmIdle ==
    /\ rm_cpu = 0
    /\ rm_memory = 0
    /\ rm_sleeps = 0
    /\ rm_target = ""
    /\ rm_page = 0
    /\ rm_pc = "idle"

NoError == [type |-> "", cause |-> ""]

ExIdle ==
    /\ ex_doc = [numPages |-> 0]
    /\ ex_toc = <<>>
    /\ page_offset = 0
    /\ desired_chapter = 0
    /\ max_tokens = 0
    /\ total_questions = 0
    /\ chapter_sections = <<>>
    /\ pdf_limit = 0
    /\ section_index = 0
    /\ batch_start = 0
    /\ section_texts = <<>>
    /\ extracted_sections = <<>>
    /\ question_distribution = <<>>
    /\ ex_requested = <<>>
    /\ ex_fetched = <<>>
    /\ ex_error = NoError
    /\ ex_pc = "idle"

DQInit ==
    /\ dq_lengths \in SectionLengths
    /\ dq_total \in 0..MaxTotalQuestions
    /\ questions_per_section = <<>>
    /\ dq_pc = "call"
    /\ OffIdle
    /\ ExIdle
    /\ TocIdle
    /\ EcIdle
    /\ RmIdle

DQCall ==
    /\ dq_pc = "call"
    /\ questions_per_section' = distribute_questions(dq_lengths, dq_total)
    /\ dq_pc' = "done"
    /\ UNCHANGED <<dq_lengths, dq_total>>
    /\ UNCHANGED <<offVars, exVars, tocVars, ecVars, rmVars>>

DQNext == DQCall

SpecDQ == DQInit /\ [][DQNext]_vars

DQDone == dq_pc = "done"

\* C1: for every section map with N >= 1 sections, whatever the content lengths,
\* and every total_questions >= N, the returned counts sum to total_questions.
C1_SumIsTotal ==
    (DQDone /\ Len(dq_lengths) >= 1 /\ dq_total >= Len(dq_lengths))
        => SumSeq(questions_per_section) = dq_total

\* C2: when the number of sections exceeds total_questions (the even-split
\* branch), the returned counts still sum to total_questions.
C2_EvenSplitSumIsTotal ==
    (DQDone /\ Len(dq_lengths) > dq_total)
        => SumSeq(questions_per_section) = dq_total

\* C3: whenever the number of sections does not exceed total_questions every
\* returned count is >= 1; a count of 0 occurs only when N > total_questions.
C3_AtLeastOne ==
    DQDone =>
        /\ Len(dq_lengths) <= dq_total
              => \A i \in 1..Len(dq_lengths) : questions_per_section[i] >= 1
        /\ (\E i \in 1..Len(dq_lengths) : questions_per_section[i] = 0)
              => Len(dq_lengths) > dq_total

\* C3's case: the proportional branch ran over a map holding an empty section
\* beside a non-empty one, and questions were left to share out.
C3_Witness ==
    /\ DQDone
    /\ Len(dq_lengths) >= 2
    /\ Len(dq_lengths) < dq_total
    /\ \E i, j \in 1..Len(dq_lengths) : dq_lengths[i] = 0 /\ dq_lengths[j] > 0
    /\ \E i \in 1..Len(dq_lengths) : questions_per_section[i] = 1

-----------------------------------------------------------------------------
(* Page texts.                                                             *)
(* page.extract_text() is a sequence of lines, a line a sequence of        *)
(* whitespace-delimited tokens; a token is a run of digits (its value in   *)
(* n) or a word (in w).                                                    *)

Num(n) == [w |-> "", n |-> n]

Word(s) == [w |-> s, n |-> -1]

IsNum(tok) == tok.n >= 0

\* str.lower() on the words of the vocabulary.
Lower(s) ==
    CASE s = "Origins" -> "origins"
      [] s = "Early" -> "early"
      [] s = "Days" -> "days"
      [] s = "Growth" -> "growth"
      [] OTHER -> s

\* The pairs (a, b) of distinct lower-case vocabulary words with b ending in a.
ProperSuffixes == {<<"early", "nearly">>}

\* The pairs (a, b) of distinct lower-case vocabulary words with b starting with a.
ProperPrefixes == {<<"day", "days">>}

\* The pairs (a, b) of distinct lower-case vocabulary words with a inside b.
ProperSubstrings == ProperSuffixes \cup ProperPrefixes

EndsWith(b, a) == a = b \/ <<a, b>> \in ProperSuffixes

StartsWith(b, a) == a = b \/ <<a, b>> \in ProperPrefixes

Contains(b, a) == a = b \/ <<a, b>> \in ProperSubstrings

RECURSIVE Flatten(_)
Flatten(ss) == IF ss = <<>> THEN <<>> ELSE Head(ss) \o Flatten(Tail(ss))

\* lines[:3] + lines[-3:]
candidate_lines(lines) ==
    SubSeq(lines, 1, Min2(3, Len(lines)))
        \o SubSeq(lines, Max2(1, Len(lines) - 2), Len(lines))

\* re.findall(r'(?<!\d)\d{1,4}(?!\d)', line): the digit runs of one to four
\* digits; a longer run yields no match.
line_numbers(line) ==
    LET short(tok) == IsNum(tok) /\ tok.n <= 9999
        runs == SelectSeq(line, short)
    IN [i \in 1..Len(runs) |-> runs[i].n]

extract_page_numbers(text) ==
    LET cand == candidate_lines(text)
    IN Flatten([i \in 1..Len(cand) |-> line_numbers(cand[i])])

\* re.sub(r'\s+', ' ', text.lower().strip()): the lower-cased tokens in order;
\* a digit run is kept as a token no title word equals.
clean_text(text) ==
    LET toks == Flatten(text)
    IN [i \in 1..Len(toks) |-> IF IsNum(toks[i]) THEN "0" ELSE Lower(toks[i].w)]

clean_title(title) == [i \in 1..Len(title) |-> Lower(title[i])]

\* clean_title in clean_text
exact_match(ctext, ctitle) ==
    LET k == Len(ctitle)
    IN \/ k = 0
       \/ k = 1 /\ \E i \in 1..Len(ctext) : Contains(ctext[i], ctitle[1])
       \/ k >= 2 /\ \E i \in 0..(Len(ctext) - k) :
              /\ EndsWith(ctext[i + 1], ctitle[1])
              /\ StartsWith(ctext[i + k], ctitle[k])
              /\ \A j \in 2..(k - 1) : ctext[i + j] = ctitle[j]

\* all(word in clean_text for word in words)
fuzzy_match(ctext, ctitle) ==
    \A j \in 1..Len(ctitle) : \E i \in 1..Len(ctext) : Contains(ctext[i], ctitle[j])

text_matches_title_any_text(text, title) == TRUE

text_matches_title(text, title) ==
    \/ exact_match(clean_text(text), clean_title(title))
    \/ fuzzy_match(clean_text(text), clean_title(title))

-----------------------------------------------------------------------------
(* Documents for find_page_offset.                                         *)
(* A document is numPages pages. A plain page shows its printed number,    *)
(* physical index - shift, on its first line once that is >= 1. Page       *)
(* chapPos (when >= 0) carries the chapter title and shows chapNum at the   *)
(* place chapForm names; page sectPos carries the section title in the     *)
(* form sectForm and shows sectNum on its first line.                      *)

ChapterPage == 5
NumPagesShort == 12
NumPagesLong == 56

body_line == <<Word("lorem"), Word("ipsum")>>

section_title_lines(form) ==
    CASE form = "exact" -> << <<Word("Early"), Word("Days")>> >>
      [] form = "scattered" -> << <<Word("Days"), Word("lorem")>>, <<Word("nearly")>> >>
      [] OTHER -> << <<Word("Early")>> >>

pdf_page_text(doc, p) ==
    LET isChap == doc.chapPos = p
        isSect == doc.sectPos = p
        top == (IF isChap /\ doc.chapForm = "top" THEN <<Num(doc.chapNum)>> ELSE <<>>)
               \o (IF isSect THEN <<Num(doc.sectNum)>> ELSE <<>>)
        titles == (IF isChap THEN << <<Word("Origins")>> >> ELSE <<>>)
                  \o (IF isSect THEN section_title_lines(doc.sectForm) ELSE <<>>)
        middle == IF isChap /\ doc.chapForm = "middle"
                  THEN << <<Word("page"), Num(doc.chapNum)>> >> ELSE <<>>
        bottom == IF isChap /\ doc.chapForm = "bottom"
                  THEN << <<Num(doc.chapNum)>> >> ELSE <<>>
    IN IF isChap \/ isSect
       THEN <<top>> \o titles \o <<body_line, body_line>> \o middle
                \o <<body_line, body_line, body_line>> \o bottom
       ELSE IF p - doc.shift >= 1
       THEN << <<Num(p - doc.shift)>>, body_line >>
       ELSE << <<Word("iv")>>, body_line >>

-----------------------------------------------------------------------------
(* Structured tables of contents. An entry's number is its dotted          *)
(* components, its title its words.                                        *)

Chapter1 == [level |-> 0, number |-> <<"1">>, title |-> <<"Origins">>, page |-> ChapterPage]

Chapter2 == [level |-> 0, number |-> <<"2">>, title |-> <<"Growth">>, page |-> ChapterPage + 20]

Section11(pg) == [level |-> 1, number |-> <<"1", "1">>, title |-> <<"Early", "Days">>, page |-> pg]

Section21 == [level |-> 1, number |-> <<"2", "1">>, title |-> <<"Origins">>, page |-> ChapterPage]

OffsetTocs ==
    { <<>>,
      <<Section11(ChapterPage)>>,
      <<Chapter1>>,
      <<Chapter1, Section21, Section11(ChapterPage)>>,
      <<Chapter1, Section11(ChapterPage + 1), Chapter2>>,
      <<Section21, Chapter1, Chapter2, Section11(ChapterPage + 1)>> }

\* number.startswith(f"{prefix}.")
number_startswith(number, prefix) ==
    /\ Len(number) > Len(prefix)
    /\ SubSeq(number, 1, Len(prefix)) = prefix

-----------------------------------------------------------------------------
(* find_page_offset.                                                       *)

\* The 50 of min(last_toc_page + 50, len(pdf.pages)).
SEARCH_LIMIT == 50

chapters(toc) ==
    LET isChapter(e) == e.level = 0
    IN SelectSeq(toc, isChapter)

first_chapter(toc) == chapters(toc)[1]

\* next(..., None): the empty sequence for None, else the one entry.
first_section(toc) ==
    LET isSection(e) ==
            e.level = 1 /\ number_startswith(e.number, first_chapter(toc).number)
        found == SelectSeq(toc, isSection)
    IN IF found = <<>> THEN <<>> ELSE <<found[1]>>

search_start(last) == Max2(last + 1, 0)

search_stop(last, numPages) == Min2(last + SEARCH_LIMIT, numPages)

\* Mutant of page_offsets: the logical page is taken from a page one further
\* on, offset = pdf_page_number - page - 1.
page_offsets_off_by_one(text, p, toc) ==
    LET ch == first_chapter(toc)
        fs == first_section(toc)
        nums == extract_page_numbers(text)
        perNumber(n) ==
            (IF n = ch.page /\ text_matches_title(text, ch.title)
             THEN << <<p - ch.page - 1, "chapter">> >> ELSE <<>>)
            \o (IF fs # <<>> /\ n = fs[1].page /\ text_matches_title(text, fs[1].title)
                THEN << <<p - fs[1].page - 1, "section">> >> ELSE <<>>)
    IN Flatten([i \in 1..Len(nums) |-> perNumber(nums[i])])

\* The body of the scan loop for one page: the (offset, source) pairs it appends.
page_offsets(text, p, toc) ==
    LET ch == first_chapter(toc)
        fs == first_section(toc)
        nums == extract_page_numbers(text)
        perNumber(n) ==
            (IF n = ch.page /\ text_matches_title(text, ch.title)
             THEN << <<p - ch.page, "chapter">> >> ELSE <<>>)
            \o (IF fs # <<>> /\ n = fs[1].page /\ text_matches_title(text, fs[1].title)
                THEN << <<p - fs[1].page, "section">> >> ELSE <<>>)
    IN Flatten([i \in 1..Len(nums) |-> perNumber(nums[i])])

\* Mutant of chosen_offset: the first candidate in scan order.
chosen_offset_first_found(offsets) == offsets[1][1]

\* "prefer chapter match", else "fall back to section match".
chosen_offset(offsets) ==
    LET isChapter(o) == o[2] = "chapter"
        chapter_offsets == SelectSeq(offsets, isChapter)
    IN IF chapter_offsets # <<>> THEN chapter_offsets[1][1] ELSE offsets[1][1]

LastTocPages == {0, 3}

Shifts == {4, SEARCH_LIMIT - 3, SEARCH_LIMIT - 2}

ChapPositions(last, shift) ==
    {last, last + 1, last + SEARCH_LIMIT - 1, last + SEARCH_LIMIT, ChapterPage + shift}

SectPositions(last, shift) ==
    {last + 1, last + SEARCH_LIMIT - 1, ChapterPage + 1 + shift}

OffsetDocs(last) ==
    { [numPages |-> n, shift |-> sh,
       chapPos |-> cp, chapForm |-> cf, chapNum |-> ChapterPage,
       sectPos |-> sp, sectForm |-> sf, sectNum |-> ChapterPage + 1] :
        n \in {NumPagesShort, NumPagesLong}, sh \in Shifts,
        cp \in {-1} \cup ChapPositions(last, 4) \cup ChapPositions(last, SEARCH_LIMIT - 3),
        cf \in {"top", "middle", "bottom"},
        sp \in {-1} \cup SectPositions(last, 4),
        sf \in {"exact", "scattered", "partial"} }

\* The documents of the family, each once: an absent page has the first form,
\* a marked page lies in the document and the chapter page is one of the
\* positions of the document's shift.
WellFormedDoc(doc, last) ==
    /\ doc.chapPos < doc.numPages /\ doc.sectPos < doc.numPages
    /\ doc.chapPos = -1 => doc.chapForm = "top"
    /\ doc.sectPos = -1 => doc.sectForm = "exact"
    /\ doc.chapPos # -1 => doc.chapPos \in ChapPositions(last, doc.shift)
    /\ doc.sectPos # -1 => doc.sectPos \in SectPositions(last, doc.shift)

OffInit ==
    /\ last_toc_page \in LastTocPages
    /\ off_doc \in {d \in OffsetDocs(last_toc_page) : WellFormedDoc(d, last_toc_page)}
    /\ structured_toc \in OffsetTocs
    /\ pdf_page_number = 0
    /\ potential_offsets = <<>>
    /\ off_pages_read = {}
    /\ off_return = 0
    /\ off_error = ""
    /\ off_pc = "start"
    /\ DQIdle
    /\ ExIdle
    /\ TocIdle
    /\ EcIdle
    /\ RmIdle

\* Lines 21-35: the two guards, then the first index of search_range.
OffValidate ==
    /\ off_pc = "start"
    /\ IF structured_toc = <<>>
       THEN /\ off_pc' = "raised"
            /\ off_error' = "Structured TOC is empty"
            /\ UNCHANGED pdf_page_number
       ELSE IF chapters(structured_toc) = <<>>
       THEN /\ off_pc' = "raised"
            /\ off_error' = "No chapters found in TOC"
            /\ UNCHANGED pdf_page_number
       ELSE /\ off_pc' = "scan"
            /\ pdf_page_number' = search_start(last_toc_page)
            /\ UNCHANGED off_error
    /\ UNCHANGED <<off_doc, structured_toc, last_toc_page, potential_offsets,
                   off_pages_read, off_return>>
    /\ UNCHANGED <<dqVars, exVars, tocVars, ecVars, rmVars>>

\* Lines 79-95: one iteration of the loop over search_range.
OffScanPage ==
    /\ off_pc = "scan"
    /\ pdf_page_number < search_stop(last_toc_page, off_doc.numPages)
    /\ off_pages_read' = off_pages_read \cup {pdf_page_number}
    /\ potential_offsets' = potential_offsets
           \o page_offsets(pdf_page_text(off_doc, pdf_page_number),
                           pdf_page_number, structured_toc)
    /\ pdf_page_number' = pdf_page_number + 1
    /\ UNCHANGED <<off_doc, structured_toc, last_toc_page, off_return, off_error, off_pc>>
    /\ UNCHANGED <<dqVars, exVars, tocVars, ecVars, rmVars>>

\* Mutant of OffAnalyze: with no candidate the offset defaults to 0.
OffAnalyze_default_zero ==
    /\ off_pc = "scan"
    /\ pdf_page_number >= search_stop(last_toc_page, off_doc.numPages)
    /\ off_pc' = "returned"
    /\ off_return' = IF potential_offsets = <<>> THEN 0
                     ELSE chosen_offset(potential_offsets)
    /\ UNCHANGED <<off_doc, structured_toc, last_toc_page, pdf_page_number,
                   potential_offsets, off_pages_read, off_error>>
    /\ UNCHANGED <<dqVars, exVars, tocVars, ecVars, rmVars>>

\* Lines 98-108: the loop is over; raise or return.
OffAnalyze ==
    /\ off_pc = "scan"
    /\ pdf_page_number >= search_stop(last_toc_page, off_doc.numPages)
    /\ IF potential_offsets = <<>>
       THEN /\ off_pc' = "raised"
            /\ off_error' = "Could not determine page offset"
            /\ UNCHANGED off_return
       ELSE /\ off_pc' = "returned"
            /\ off_return' = chosen_offset(potential_offsets)
            /\ UNCHANGED off_error
    /\ UNCHANGED <<off_doc, structured_toc, last_toc_page, pdf_page_number,
                   potential_offsets, off_pages_read>>
    /\ UNCHANGED <<dqVars, exVars, tocVars, ecVars, rmVars>>

OffNext == OffValidate \/ OffScanPage \/ OffAnalyze

SpecOffset == OffInit /\ [][OffNext]_vars

OffDone == off_pc \in {"returned", "raised"}

InSeq(x, seq) == \E i \in 1..Len(seq) : seq[i] = x

\* Page p shows entry e's logical page among the numbers of its first or last
\* three lines and its text matches e's title.
Corroborates(doc, p, e) ==
    /\ InSeq(e.page, extract_page_numbers(pdf_page_text(doc, p)))
    /\ text_matches_title(pdf_page_text(doc, p), e.title)

\* The pages the loop of find_page_offset ranges over.
SearchRange == search_start(last_toc_page)..(search_stop(last_toc_page, off_doc.numPages) - 1)

\* A synthetic document with the offset doc.shift injected: the first and last
\* three lines of every page show no number but the page's printed number
\* (physical index - shift), every page whose printed number is >= 1 shows it
\* there, and the page of the first chapter lies in the range searched and
\* contains the chapter's title.
SyntheticDocument(doc, toc) ==
    /\ chapters(toc) # <<>>
    /\ \A p \in 0..(doc.numPages - 1) :
          LET nums == extract_page_numbers(pdf_page_text(doc, p))
          IN /\ \A i \in 1..Len(nums) : nums[i] = p - doc.shift
             /\ p - doc.shift >= 1 => nums # <<>>
    /\ first_chapter(toc).page + doc.shift \in SearchRange
    /\ exact_match(clean_text(pdf_page_text(doc, first_chapter(toc).page + doc.shift)),
                   clean_title(first_chapter(toc).title))

\* C4: on a synthetic document with the offset O injected, whose first chapter's
\* page contains the chapter title and lies in the range searched after
\* last_toc_page, find_page_offset returns exactly O.
C4_RecoversInjectedOffset ==
    (OffDone /\ SyntheticDocument(off_doc, structured_toc))
        => (off_pc = "returned" /\ off_return = off_doc.shift)

\* C4's case, the scenario of the specification: the TOC ends at page 3,
\* chapter 1 "Origins" has printed page 5 and is found on physical page 9.
C4_Witness ==
    /\ off_pc = "returned"
    /\ SyntheticDocument(off_doc, structured_toc)
    /\ last_toc_page = 3
    /\ first_chapter(structured_toc).page = 5
    /\ off_doc.chapPos = 9
    /\ off_return = 4

\* C5: when the scan recorded chapter-tagged candidates the first of them is
\* returned, also when a section-tagged candidate with another offset was found
\* on an earlier page; a section-tagged offset is returned only when the whole
\* window gave no chapter-tagged candidate.
C5_ChapterPreferred ==
    off_pc = "returned" =>
        /\ (\E i \in 1..Len(potential_offsets) : potential_offsets[i][2] = "chapter")
              => \E i \in 1..Len(potential_offsets) :
                    /\ potential_offsets[i][2] = "chapter"
                    /\ \A j \in 1..(i - 1) : potential_offsets[j][2] # "chapter"
                    /\ off_return = potential_offsets[i][1]
        /\ (\A i \in 1..Len(potential_offsets) : potential_offsets[i][2] = "section")
              => off_return = potential_offsets[1][1]
        /\ \A p \in SearchRange :
              Corroborates(off_doc, p, first_chapter(structured_toc))
                  => \E q \in SearchRange :
                        /\ q <= p
                        /\ Corroborates(off_doc, q, first_chapter(structured_toc))
                        /\ off_return = q - first_chapter(structured_toc).page

\* C5's case: a page corroborating the section alone comes first, a page
\* corroborating the chapter later with another offset, and the chapter's
\* offset was returned.
C5_Witness ==
    /\ off_pc = "returned"
    /\ first_section(structured_toc) # <<>>
    /\ \E p, q \in SearchRange :
          /\ p < q
          /\ Corroborates(off_doc, p, first_section(structured_toc)[1])
          /\ \A r \in SearchRange :
                r < q => ~Corroborates(off_doc, r, first_chapter(structured_toc))
          /\ Corroborates(off_doc, q, first_chapter(structured_toc))
          /\ p - first_section(structured_toc)[1].page
                # q - first_chapter(structured_toc).page
          /\ off_return = q - first_chapter(structured_toc).page

\* C6: find_page_offset ends in an error and returns no integer when the
\* structure has no entries, when it has no level-0 entry, and when no page of
\* the range searched shows the chapter's (or the section's) logical page
\* together with the matching title.
C6_FailsWithoutMatch ==
    /\ (structured_toc = <<>> \/ chapters(structured_toc) = <<>>)
          => off_pc \in {"idle", "start", "raised"}
    /\ off_pc = "returned" =>
          \E p \in SearchRange :
             \/ Corroborates(off_doc, p, first_chapter(structured_toc))
             \/ /\ first_section(structured_toc) # <<>>
                /\ Corroborates(off_doc, p, first_section(structured_toc)[1])
    /\ (off_pc = "raised") = (off_error # "")

\* C6's case: the page of the chapter's printed number was read, it shows the
\* number without the title, and the call raised.
C6_Witness ==
    /\ off_pc = "raised"
    /\ off_error = "Could not determine page offset"
    /\ off_doc.chapPos = -1
    /\ first_chapter(structured_toc).page + off_doc.shift \in off_pages_read

\* C7: the window is the 50 pages last_toc_page+1 .. last_toc_page+50, capped
\* at the document length: no page outside it is read, and a corroborating
\* chapter page at any of its indices, the 50th included, is found.
C7_WindowOfFiftyPages ==
    LET window == Max2(last_toc_page + 1, 0)
                      ..Min2(last_toc_page + 50, off_doc.numPages - 1)
    IN /\ off_pages_read \subseteq window
       /\ (OffDone /\ chapters(structured_toc) # <<>>)
             => \A p \in window :
                   Corroborates(off_doc, p, first_chapter(structured_toc))
                       => off_pc = "returned"

-----------------------------------------------------------------------------
(* extract_chapter_sections.                                               *)

MAX_PAGES_PER_SECTION == 50
CHARS_PER_TOKEN == 4
batch_size == 3

\* The integers whose decimal form the model converts.
Decimals == 0..99

\* str(n)
str(n) == ToString(n)

\* Whether int(s) succeeds, and its value.
is_int(s) == \E n \in Decimals : ToString(n) = s

int(s) == CHOOSE n \in Decimals : ToString(n) = s

\* entry['level'] == 0 and entry['number'] == str(desired_chapter): next(..., None)
find_chapter(toc, desired) ==
    LET isIt(e) == e.level = 0 /\ e.number = <<str(desired)>>
        found == SelectSeq(toc, isIt)
    IN IF found = <<>> THEN <<>> ELSE <<found[1]>>

\* The level-1 entries whose number starts with f"{desired_chapter}.".
sections_of(toc, desired) ==
    LET isSection(e) == e.level = 1 /\ number_startswith(e.number, <<str(desired)>>)
    IN SelectSeq(toc, isSection)

\* next((entry for entry in entries
\*       if entry['level'] == 0 and int(entry['number']) == desired_chapter + 1), None):
\* the entries are tried in order; int() of a level-0 number that is no
\* integer raises ValueError before any later entry is looked at.
RECURSIVE find_next_chapter(_, _)
find_next_chapter(toc, desired) ==
    IF toc = <<>> THEN [kind |-> "none", page |-> 0]
    ELSE LET e == Head(toc)
         IN IF e.level # 0 THEN find_next_chapter(Tail(toc), desired)
            ELSE IF ~(Len(e.number) = 1 /\ is_int(e.number[1]))
            THEN [kind |-> "ValueError", page |-> 0]
            ELSE IF int(e.number[1]) = desired + 1
            THEN [kind |-> "found", page |-> e.page]
            ELSE find_next_chapter(Tail(toc), desired)

\* Mutant of compute_pdf_limit: without a next chapter the limit is the
\* page count alone.
compute_pdf_limit_page_count(chapter, next_chapter, offset, numPages) ==
    IF next_chapter.kind = "found"
    THEN next_chapter.page + offset
    ELSE numPages

compute_pdf_limit(chapter, next_chapter, offset, numPages) ==
    IF next_chapter.kind = "found"
    THEN next_chapter.page + offset
    ELSE Min2(chapter.page + offset + MAX_PAGES_PER_SECTION, numPages)

start_page(sections, i, offset) == sections[i].page + offset

\* Mutant of end_page: a section that is not the last ends at the next
\* section's start, whatever pdf_limit.
end_page_next_start(sections, i, offset, limit) ==
    IF i < Len(sections)
    THEN sections[i + 1].page + offset
    ELSE Min2(start_page(sections, i, offset) + MAX_PAGES_PER_SECTION, limit)

\* Mutant of end_page: the last section ends at pdf_limit, however far.
end_page_last_to_limit(sections, i, offset, limit) ==
    IF i < Len(sections)
    THEN Min2(sections[i + 1].page + offset, limit)
    ELSE limit

\* Lines 179-182, i the 1-based position of the section.
end_page(sections, i, offset, limit) ==
    IF i < Len(sections)
    THEN Min2(sections[i + 1].page + offset, limit)
    ELSE Min2(start_page(sections, i, offset) + MAX_PAGES_PER_SECTION, limit)

\* list(range(batch_start, min(batch_start + batch_size, end_page)))
batch_pages(start, end) ==
    [k \in 1..(Min2(start + batch_size, end) - start) |-> start + k - 1]

\* pdf.pages[page_num] for a page_num below len(pdf.pages): the physical index
\* of the page a Python list gives, -1 when it raises IndexError.
physical_index(doc, page_num) ==
    IF page_num >= 0 THEN page_num
    ELSE IF page_num >= -doc.numPages THEN doc.numPages + page_num
    ELSE -1

\* ' '.join(page.extract_text().split()) of a physical page: one paragraph,
\* with its length in characters and in tokens of the encoding.
normal_text(doc, phys) ==
    IF phys \in doc.long
    THEN [page |-> phys, chars |-> 10, toks |-> 4]
    ELSE IF phys \in doc.dense
    THEN [page |-> phys, chars |-> 12, toks |-> 2]
    ELSE [page |-> phys, chars |-> 3, toks |-> 1]

\* Mutant of page_texts: the text of a blank page is normalized and kept,
\* an empty string.
page_texts_keep_blank(doc, page_num) ==
    LET phys == physical_index(doc, page_num)
    IN IF page_num >= doc.numPages \/ phys = -1 THEN <<>>
       ELSE IF phys \in doc.raises THEN <<>>
       ELSE IF phys \in doc.blank THEN <<[page |-> phys, chars |-> 0, toks |-> 0]>>
       ELSE <<normal_text(doc, phys)>>

\* The texts process_page_batch appends for one page_num: none when the page
\* is beyond the document, when fetching it or extracting its text raises,
\* or when the text is empty or blank.
page_texts(doc, page_num) ==
    LET phys == physical_index(doc, page_num)
    IN IF page_num >= doc.numPages \/ phys = -1 THEN <<>>
       ELSE IF phys \in doc.raises \/ phys \in doc.blank THEN <<>>
       ELSE <<normal_text(doc, phys)>>

process_page_batch(doc, pages) ==
    Flatten([k \in 1..Len(pages) |-> page_texts(doc, pages[k])])

\* The pages of a batch that pdf.pages[page_num] returned.
pages_fetched(doc, pages, i) ==
    LET got(k) == IF pages[k] >= doc.numPages \/ physical_index(doc, pages[k]) = -1
                  THEN <<>>
                  ELSE << <<i, pages[k], physical_index(doc, pages[k])>> >>
    IN Flatten([k \in 1..Len(pages) |-> got(k)])

\* len('\n'.join(texts))
content_length(texts) ==
    SumSeq([k \in 1..Len(texts) |-> texts[k].chars]) + Len(texts) - 1

\* len(enc.encode('\n'.join(texts))): the newline between two normalized
\* texts is a token of its own.
token_count(texts) ==
    SumSeq([k \in 1..Len(texts) |-> texts[k].toks]) + Len(texts) - 1

\* Mutant of split_loop: the paragraph that closes a part is not carried
\* over into the next one.
RECURSIVE split_loop_drops_paragraph(_, _, _, _, _)
split_loop_drops_paragraph(paragraphs, avg, current_part, current_length, parts) ==
    IF paragraphs = <<>>
    THEN IF current_part # <<>> THEN Append(parts, current_part) ELSE parts
    ELSE LET paragraph == Head(paragraphs)
             grown == current_length + paragraph.chars
         IN IF grown > avg /\ current_part # <<>>
            THEN split_loop_drops_paragraph(Tail(paragraphs), avg, <<>>, 0,
                                            Append(parts, current_part))
            ELSE split_loop_drops_paragraph(Tail(paragraphs), avg,
                                            Append(current_part, paragraph),
                                            grown, parts)

\* The loop over section_content.split('\n') and the final flush.
RECURSIVE split_loop(_, _, _, _, _)
split_loop(paragraphs, avg_chars_per_part, current_part, current_length, parts) ==
    IF paragraphs = <<>>
    THEN IF current_part # <<>> THEN Append(parts, current_part) ELSE parts
    ELSE LET paragraph == Head(paragraphs)
             grown == current_length + paragraph.chars
         IN IF grown > avg_chars_per_part /\ current_part # <<>>
            THEN split_loop(Tail(paragraphs), avg_chars_per_part, <<paragraph>>,
                            paragraph.chars, Append(parts, current_part))
            ELSE split_loop(Tail(paragraphs), avg_chars_per_part,
                            Append(current_part, paragraph), grown, parts)

split_parts(texts, maxTokens) ==
    LET avg_chars_per_part ==
            content_length(texts) \div ((token_count(texts) \div maxTokens) + 1)
    IN split_loop(texts, avg_chars_per_part, <<>>, 0, <<>>)

\* extracted_sections[key] = text on a dict kept in insertion order.
dict_set(dict, key, text) ==
    IF \E k \in 1..Len(dict) : dict[k].key = key
    THEN [k \in 1..Len(dict) |->
             IF dict[k].key = key THEN [key |-> key, text |-> text] ELSE dict[k]]
    ELSE Append(dict, [key |-> key, text |-> text])

\* Mutant of store_parts: the parts are numbered from 0, enumerate(parts).
RECURSIVE store_parts_zero_based(_, _, _, _)
store_parts_zero_based(dict, base, parts, j) ==
    IF parts = <<>> THEN dict
    ELSE store_parts_zero_based(dict_set(dict, Append(base, str(j - 1)), Head(parts)),
                                base, Tail(parts), j + 1)

RECURSIVE store_parts(_, _, _, _)
store_parts(dict, base, parts, j) ==
    IF parts = <<>> THEN dict
    ELSE store_parts(dict_set(dict, Append(base, str(j)), Head(parts)),
                     base, Tail(parts), j + 1)

\* Mutant of store_section: a section longer than MAX_CHARS is split without
\* its tokens being counted.
store_section_split_by_chars(dict, section, texts, desired, maxTokens) ==
    IF texts = <<>> THEN dict
    ELSE IF content_length(texts) > maxTokens * CHARS_PER_TOKEN
    THEN store_parts(dict,
                     IF section.level = 1 THEN section.number ELSE <<str(desired)>>,
                     split_parts(texts, maxTokens), 1)
    ELSE dict_set(dict,
                  IF section.level = 1 THEN section.number ELSE <<str(desired)>>,
                  texts)

\* Lines 196-249 for one section: what extracted_sections becomes.
store_section(dict, section, texts, desired, maxTokens) ==
    IF texts = <<>> THEN dict
    ELSE IF /\ content_length(texts) > maxTokens * CHARS_PER_TOKEN
            /\ token_count(texts) > maxTokens
    THEN store_parts(dict,
                     IF section.level = 1 THEN section.number ELSE <<str(desired)>>,
                     split_parts(texts, maxTokens), 1)
    ELSE dict_set(dict,
                  IF section.level = 1 THEN section.number ELSE <<str(desired)>>,
                  texts)

\* Lines 262-264: every exception leaves as a PDFExtractionError.
wrapped(cause) == [type |-> "PDFExtractionError", cause |-> cause]

-----------------------------------------------------------------------------
(* Calls of extract_chapter_sections.                                      *)

ExPagesShort == 6
ExPagesLong == 64

ExChapter(n, pg) ==
    [level |-> 0, number |-> <<str(n)>>, title |-> <<"Origins">>, page |-> pg]

ExSection(n, m, pg) ==
    [level |-> 1, number |-> <<str(n), str(m)>>, title |-> <<"Early", "Days">>, page |-> pg]

ExSubsection(n, m, k, pg) ==
    [level |-> 2, number |-> <<str(n), str(m), str(k)>>, title |-> <<"Days">>, page |-> pg]

Appendix == [level |-> 0, number |-> <<"A">>, title |-> <<"Growth">>, page |-> 62]

\* Chapter 1 on page 3 with the sections 1.1, 1.2, ... on secPages, then
\* chapter 2 with section 2.1 when ch2Page > 0, and the appendix where app says.
ExToc(secPages, ch2Page, app) ==
    <<ExChapter(1, 3)>>
        \o [k \in 1..Len(secPages) |-> ExSection(1, k, secPages[k])]
        \o (IF Len(secPages) > 0 THEN <<ExSubsection(1, 1, 1, secPages[1])>> ELSE <<>>)
        \o (IF app = "before" THEN <<Appendix>> ELSE <<>>)
        \o (IF ch2Page > 0
            THEN <<ExChapter(2, ch2Page), ExSection(2, 1, ch2Page + 1)>> ELSE <<>>)
        \o (IF app = "after" THEN <<Appendix>> ELSE <<>>)

SectionPages == {3, 5, 60}

NextChapterPages == {0, 7, 60}

ExTocs ==
    { ExToc(sp, c2, app) :
        sp \in UNION {[1..n -> SectionPages] : n \in 0..2},
        c2 \in NextChapterPages,
        app \in {"none", "before", "after"} }

\* Which physical pages raise on extract_text, are blank, are long (many
\* short words) or are dense (few long words); the others are short.
PageKinds ==
    { [raises |-> {}, blank |-> {}, long |-> {}, dense |-> {}],
      [raises |-> {}, blank |-> {4}, long |-> {5}, dense |-> {}],
      [raises |-> {3, 5}, blank |-> {}, long |-> {4}, dense |-> {}],
      [raises |-> {}, blank |-> {}, long |-> {1, 3, 4, 5}, dense |-> {}],
      [raises |-> {3, 6}, blank |-> {4}, long |-> {}, dense |-> {}],
      [raises |-> {}, blank |-> {4, 5, 6}, long |-> {}, dense |-> {3}],
      [raises |-> {}, blank |-> {}, long |-> {}, dense |-> {3}] }

ExDocs ==
    { [numPages |-> n, raises |-> k.raises, blank |-> k.blank,
       long |-> k.long, dense |-> k.dense] :
        n \in {ExPagesShort, ExPagesLong}, k \in PageKinds }

ExInit ==
    /\ ex_doc \in ExDocs
    /\ ex_toc \in ExTocs
    /\ page_offset \in {-4, 0, 2}
    /\ desired_chapter \in {1, 2, 3}
    /\ \E call \in {<<2, 1>>, <<4, 3>>, <<100, 5>>} :
           /\ max_tokens = call[1]
           /\ total_questions = call[2]
    /\ chapter_sections = <<>>
    /\ pdf_limit = 0
    /\ section_index = 0
    /\ batch_start = 0
    /\ section_texts = <<>>
    /\ extracted_sections = <<>>
    /\ question_distribution = <<>>
    /\ ex_requested = <<>>
    /\ ex_fetched = <<>>
    /\ ex_error = NoError
    /\ ex_pc = "start"
    /\ DQIdle
    /\ OffIdle
    /\ TocIdle
    /\ EcIdle
    /\ RmIdle

exInputs == <<ex_doc, ex_toc, page_offset, desired_chapter, max_tokens, total_questions>>

\* Lines 145-171: the chapter, its sections, the next chapter and pdf_limit.
ExStart ==
    /\ ex_pc = "start"
    /\ LET chapter == find_chapter(ex_toc, desired_chapter)
           sections == sections_of(ex_toc, desired_chapter)
           next_chapter == find_next_chapter(ex_toc, desired_chapter)
       IN IF chapter = <<>>
          THEN /\ ex_pc' = "raised"
               /\ ex_error' = wrapped("Chapter not found in TOC")
               /\ UNCHANGED <<chapter_sections, pdf_limit, section_index, batch_start>>
          ELSE IF next_chapter.kind = "ValueError"
          THEN /\ ex_pc' = "raised"
               /\ ex_error' = wrapped("ValueError")
               /\ chapter_sections' = IF sections = <<>> THEN chapter ELSE sections
               /\ UNCHANGED <<pdf_limit, section_index, batch_start>>
          ELSE /\ ex_pc' = "batch"
               /\ chapter_sections' = IF sections = <<>> THEN chapter ELSE sections
               /\ pdf_limit' = compute_pdf_limit(chapter[1], next_chapter,
                                                 page_offset, ex_doc.numPages)
               /\ section_index' = 1
               /\ batch_start' = start_page(chapter_sections', 1, page_offset)
               /\ UNCHANGED ex_error
    /\ UNCHANGED <<section_texts, extracted_sections, question_distribution,
                   ex_requested, ex_fetched>>
    /\ UNCHANGED exInputs
    /\ UNCHANGED <<dqVars, offVars, tocVars, ecVars, rmVars>>

\* Lines 187-193: one batch of the current section.
ExBatch ==
    /\ ex_pc = "batch"
    /\ batch_start < end_page(chapter_sections, section_index, page_offset, pdf_limit)
    /\ LET pages == batch_pages(batch_start,
                        end_page(chapter_sections, section_index, page_offset, pdf_limit))
       IN /\ section_texts' = section_texts \o process_page_batch(ex_doc, pages)
          /\ ex_requested' = ex_requested
                 \o [k \in 1..Len(pages) |-> <<section_index, pages[k]>>]
          /\ ex_fetched' = ex_fetched \o pages_fetched(ex_doc, pages, section_index)
    /\ batch_start' = batch_start + batch_size
    /\ UNCHANGED <<chapter_sections, pdf_limit, section_index, extracted_sections,
                   question_distribution, ex_error, ex_pc>>
    /\ UNCHANGED exInputs
    /\ UNCHANGED <<dqVars, offVars, tocVars, ecVars, rmVars>>

\* Lines 196-249: the section's batches are over; store it, split or whole,
\* and go on to the next section.
ExStoreSection ==
    /\ ex_pc = "batch"
    /\ batch_start >= end_page(chapter_sections, section_index, page_offset, pdf_limit)
    /\ extracted_sections' = store_section(extracted_sections,
                                           chapter_sections[section_index],
                                           section_texts, desired_chapter, max_tokens)
    /\ section_texts' = <<>>
    /\ IF section_index < Len(chapter_sections)
       THEN /\ section_index' = section_index + 1
            /\ batch_start' = start_page(chapter_sections, section_index + 1, page_offset)
            /\ UNCHANGED ex_pc
       ELSE /\ ex_pc' = "distribute"
            /\ UNCHANGED <<section_index, batch_start>>
    /\ UNCHANGED <<chapter_sections, pdf_limit, question_distribution,
                   ex_requested, ex_fetched, ex_error>>
    /\ UNCHANGED exInputs
    /\ UNCHANGED <<dqVars, offVars, tocVars, ecVars, rmVars>>

\* Lines 256-259: the question distribution, and the return.
ExDistribute ==
    /\ ex_pc = "distribute"
    /\ question_distribution' =
           distribute_questions(
               [k \in 1..Len(extracted_sections) |->
                    content_length(extracted_sections[k].text)],
               total_questions)
    /\ ex_pc' = "returned"
    /\ UNCHANGED <<chapter_sections, pdf_limit, section_index, batch_start, section_texts,
                   extracted_sections, ex_requested, ex_fetched, ex_error>>
    /\ UNCHANGED exInputs
    /\ UNCHANGED <<dqVars, offVars, tocVars, ecVars, rmVars>>

ExNext == ExStart \/ ExBatch \/ ExStoreSection \/ ExDistribute

SpecExtract == ExInit /\ [][ExNext]_vars

-----------------------------------------------------------------------------
(* Properties of extract_chapter_sections.                                 *)

ExReturned == ex_pc = "returned"

\* The integers a, a+1, ..., b-1 in order: list(range(a, b)).
RangeSeq(a, b) == [k \in 1..Max2(b - a, 0) |-> a + k - 1]

\* The page numbers the loop went through for the i-th section, in order.
RequestedFor(i) ==
    LET mine(r) == r[1] = i
        rs == SelectSeq(ex_requested, mine)
    IN [k \in 1..Len(rs) |-> rs[k][2]]

\* The physical indices of the pages fetched for the i-th section, in order.
FetchedFor(i) ==
    LET mine(r) == r[1] = i
        rs == SelectSeq(ex_fetched, mine)
    IN [k \in 1..Len(rs) |-> rs[k][3]]

\* A level-0 entry numbered as the requested chapter, or as the one after it.
ChapterEntries(n) ==
    LET isIt(e) == e.level = 0 /\ e.number = <<str(n)>>
    IN SelectSeq(ex_toc, isIt)

\* Of the page numbers gone through, the ones a document of numPages pages
\* has a page for, as the physical index a Python list gives.
PagesOfDocument(nums) ==
    LET exists(k) == k < ex_doc.numPages /\ k >= -ex_doc.numPages
        there == SelectSeq(nums, exists)
    IN [k \in 1..Len(there) |->
           IF there[k] >= 0 THEN there[k] ELSE ex_doc.numPages + there[k]]

SectionStart(i) == chapter_sections[i].page + page_offset

\* The limit no section of the chapter goes beyond: the start of the
\* following chapter, else 50 pages after the chapter's start, capped at the
\* page count.
HardLimit ==
    IF ChapterEntries(desired_chapter + 1) # <<>>
    THEN ChapterEntries(desired_chapter + 1)[1].page + page_offset
    ELSE Min2(ChapterEntries(desired_chapter)[1].page + page_offset + 50,
              ex_doc.numPages)

\* C8: when no level-0 entry has the requested chapter's number, the call
\* fails with an error of the kind ChapterNotFoundError.
C8_ChapterNotFoundKind ==
    (ex_pc \in {"returned", "raised"} /\ ChapterEntries(desired_chapter) = <<>>)
        => (ex_pc = "raised" /\ ex_error.type = "ChapterNotFoundError")

\* C9 as stated: for every section but the last, the pages read are exactly
\* the physical indices of [section.page + offset, next_section.page + offset)
\* (taken for the sections whose whole range lies inside the document).
C9_ReadsUpToNextSection ==
    ExReturned =>
        \A i \in 1..(Len(chapter_sections) - 1) :
            (SectionStart(i) >= 0 /\ SectionStart(i + 1) <= ex_doc.numPages)
                => FetchedFor(i) = RangeSeq(SectionStart(i), SectionStart(i + 1))

\* C9, amended: for every section but the last, the page numbers gone through
\* are exactly [section.page + offset, min(next_section.page + offset, limit)),
\* limit being the following chapter's page + offset if there is one and else
\* min(chapter.page + offset + 50, page count); the pages read are the ones of
\* these the document has.
C9_ReadsUpToNextSectionOrLimit ==
    ExReturned =>
        \A i \in 1..(Len(chapter_sections) - 1) :
            /\ RequestedFor(i) =
                   RangeSeq(SectionStart(i), Min2(SectionStart(i + 1), HardLimit))
            /\ FetchedFor(i) = PagesOfDocument(RequestedFor(i))

\* A section that is not the last, whose next section starts inside the
\* document but beyond the limit, and that was read up to the limit.
C9_Witness ==
    /\ ExReturned
    /\ \E i \in 1..(Len(chapter_sections) - 1) :
           /\ SectionStart(i) >= 0
           /\ SectionStart(i + 1) <= ex_doc.numPages
           /\ HardLimit < SectionStart(i + 1)
           /\ SectionStart(i) < HardLimit
           /\ FetchedFor(i) = RangeSeq(SectionStart(i), HardLimit)

\* C10 as stated: when a following chapter exists, the last section is read
\* over [section.page + offset, next_chapter.page + offset), however long
\* (taken for the calls where that range lies inside the document).
C10_LastReadsUpToNextChapter ==
    (ExReturned /\ ChapterEntries(desired_chapter + 1) # <<>>) =>
        LET last == Len(chapter_sections)
        IN (SectionStart(last) >= 0 /\ HardLimit <= ex_doc.numPages)
               => FetchedFor(last) = RangeSeq(SectionStart(last), HardLimit)

\* C10, amended: when a following chapter exists, the page numbers gone
\* through for the last section are exactly
\* [start, min(start + 50, next_chapter.page + offset)) with
\* start = section.page + offset; the pages read are the ones of these the
\* document has.
C10_LastReadsAtMostFiftyPages ==
    (ExReturned /\ ChapterEntries(desired_chapter + 1) # <<>>) =>
        LET last == Len(chapter_sections)
        IN /\ RequestedFor(last) =
                  RangeSeq(SectionStart(last),
                           Min2(SectionStart(last) + 50, HardLimit))
           /\ FetchedFor(last) = PagesOfDocument(RequestedFor(last))

\* A following chapter that starts more than 50 pages after the last
\* section, inside the document; the last section was read over 50 pages.
C10_Witness ==
    /\ ExReturned
    /\ ChapterEntries(desired_chapter + 1) # <<>>
    /\ LET last == Len(chapter_sections)
       IN /\ SectionStart(last) >= 0
          /\ HardLimit <= ex_doc.numPages
          /\ SectionStart(last) + 50 < HardLimit
          /\ FetchedFor(last) = RangeSeq(SectionStart(last), SectionStart(last) + 50)

\* C11 as stated: without a following chapter the last section's end page is
\* min(start + 50, page count), start being the section's page + offset, and
\* no page index at or beyond the page count is read.
C11_LastEndsFiftyAfterStart ==
    (ExReturned /\ ChapterEntries(desired_chapter + 1) = <<>>) =>
        LET last == Len(chapter_sections)
        IN /\ RequestedFor(last) =
                  RangeSeq(SectionStart(last),
                           Min2(SectionStart(last) + 50, ex_doc.numPages))
           /\ \A k \in 1..Len(ex_fetched) : ex_fetched[k][2] < ex_doc.numPages

\* C11, amended: without a following chapter the last section's end page is
\* min(start + 50, chapter.page + offset + 50, page count); no page index at
\* or beyond the page count is read, for any section.
C11_LastEndsFiftyAfterChapter ==
    (ExReturned /\ ChapterEntries(desired_chapter + 1) = <<>>) =>
        LET last == Len(chapter_sections)
            chapter == ChapterEntries(desired_chapter)[1]
        IN /\ RequestedFor(last) =
                  RangeSeq(SectionStart(last),
                           Min2(SectionStart(last) + 50,
                                Min2(chapter.page + page_offset + 50,
                                     ex_doc.numPages)))
           /\ \A k \in 1..Len(ex_fetched) :
                 /\ ex_fetched[k][2] < ex_doc.numPages
                 /\ ex_fetched[k][3] \in 0..(ex_doc.numPages - 1)

\* C11's case: no following chapter, the last section starts after the
\* chapter's first page and more than 50 pages before the document's end, and
\* was read up to 50 pages after the chapter's start.
C11_Witness ==
    /\ ExReturned
    /\ ChapterEntries(desired_chapter + 1) = <<>>
    /\ LET last == Len(chapter_sections)
           chapter == ChapterEntries(desired_chapter)[1]
       IN /\ SectionStart(last) > chapter.page + page_offset
          /\ SectionStart(last) + 50 < ex_doc.numPages
          /\ FetchedFor(last) =
                 RangeSeq(SectionStart(last), chapter.page + page_offset + 50)
          /\ FetchedFor(last) # <<>>

\* The normalized texts of the readable pages of the i-th section, in order:
\* the section's content is their join with newlines.
SectionTexts(i) == process_page_batch(ex_doc, RequestedFor(i))

\* No level-1 entry has a number starting with "{desired_chapter}.".
NoSectionEntries ==
    \A k \in 1..Len(ex_toc) :
        ~(/\ ex_toc[k].level = 1
          /\ Len(ex_toc[k].number) >= 2
          /\ ex_toc[k].number[1] = str(desired_chapter))

\* C12: a chapter without level-1 entries is treated as one section, the
\* chapter entry itself; if its text is within the token budget
\* ExtractedSection has exactly one entry, keyed by the chapter number.
C12_ChapterAsOneSection ==
    (ExReturned /\ NoSectionEntries) =>
        /\ chapter_sections = <<ChapterEntries(desired_chapter)[1]>>
        /\ (SectionTexts(1) # <<>> /\ token_count(SectionTexts(1)) <= max_tokens)
              => extracted_sections =
                     << [key |-> <<str(desired_chapter)>>, text |-> SectionTexts(1)] >>

\* C12's case: the chapter has no sections, its text is longer than
\* 4 * max_tokens characters but within max_tokens tokens, and the one entry
\* is there.
C12_Witness ==
    /\ ExReturned
    /\ NoSectionEntries
    /\ content_length(SectionTexts(1)) > 4 * max_tokens
    /\ token_count(SectionTexts(1)) <= max_tokens
    /\ Len(extracted_sections) = 1
    /\ extracted_sections[1].key = <<str(desired_chapter)>>

\* The key a section is stored under when it is not split, and the prefix of
\* its parts' keys when it is.
SectionKey(i) ==
    IF chapter_sections[i].level = 1
    THEN chapter_sections[i].number
    ELSE <<str(desired_chapter)>>

\* The entries of extracted_sections that came from the i-th section: the
\* one under its key, or its parts, in the order of the dict.
EntriesOf(i) ==
    LET mine(e) ==
            \/ e.key = SectionKey(i)
            \/ /\ Len(e.key) = Len(SectionKey(i)) + 1
               /\ SubSeq(e.key, 1, Len(SectionKey(i))) = SectionKey(i)
    IN SelectSeq(extracted_sections, mine)

\* C13: every text stored in ExtractedSection, an unsplit section or a part
\* of a split one, has at most max_tokens tokens.
C13_StoredTextsWithinBudget ==
    ExReturned =>
        \A k \in 1..Len(extracted_sections) :
            token_count(extracted_sections[k].text) <= max_tokens

\* C14: a section of k * max_tokens + r tokens, k >= 1 and r > 0, produces
\* at least k + 1 parts.
C14_AtLeastKPlusOneParts ==
    ExReturned =>
        \A i \in 1..Len(chapter_sections) :
            LET tokens == token_count(SectionTexts(i))
            IN (/\ SectionTexts(i) # <<>>
                /\ tokens \div max_tokens >= 1
                /\ tokens % max_tokens > 0)
                   => Len(EntriesOf(i)) >= (tokens \div max_tokens) + 1

\* The i-th section was split: its entries are parts, keyed below its key.
WasSplit(i) ==
    /\ EntriesOf(i) # <<>>
    /\ \A k \in 1..Len(EntriesOf(i)) : EntriesOf(i)[k].key # SectionKey(i)

\* C15: the parts of a split section, concatenated in order with newline
\* separators, are the section's whole text: the paragraphs of
\* section_content.split('\n'), each once and in their order.
C15_PartsReconstructText ==
    ExReturned =>
        \A i \in 1..Len(chapter_sections) :
            WasSplit(i) =>
                /\ Flatten([k \in 1..Len(EntriesOf(i)) |-> EntriesOf(i)[k].text])
                       = SectionTexts(i)
                /\ \A k \in 1..Len(EntriesOf(i)) : EntriesOf(i)[k].text # <<>>

\* C15's case: a section of at least three paragraphs split into at least
\* two parts, one of them holding more than one paragraph.
C15_Witness ==
    /\ ExReturned
    /\ \E i \in 1..Len(chapter_sections) :
          /\ WasSplit(i)
          /\ Len(SectionTexts(i)) >= 3
          /\ Len(EntriesOf(i)) >= 2
          /\ \E k \in 1..Len(EntriesOf(i)) : Len(EntriesOf(i)[k].text) >= 2

\* The i-th section has text and is over both budgets, in characters and in
\* tokens: the case in which it is split.
OverBudget(i) ==
    /\ SectionTexts(i) # <<>>
    /\ content_length(SectionTexts(i)) > max_tokens * 4
    /\ token_count(SectionTexts(i)) > max_tokens

\* The keys the i-th section is to have: none without text, "{number}.1",
\* "{number}.2", ... for its parts when split ("{chapter}.1", ... for the
\* whole-chapter placeholder), and its own number otherwise.
ExpectedKeys(i) ==
    LET number == IF chapter_sections[i].level = 1
                  THEN chapter_sections[i].number
                  ELSE <<str(desired_chapter)>>
    IN IF SectionTexts(i) = <<>> THEN <<>>
       ELSE IF OverBudget(i)
       THEN [k \in 1..Len(EntriesOf(i)) |-> number \o <<str(k)>>]
       ELSE <<number>>

\* C16: the keys of ExtractedSection are, section after section, the keys of
\* the parts "{number}.1", "{number}.2", ... of a split section and the own
\* number of a section that is not split; a split section has at least one
\* part.
C16_PartKeys ==
    ExReturned =>
        /\ [k \in 1..Len(extracted_sections) |-> extracted_sections[k].key]
               = Flatten([i \in 1..Len(chapter_sections) |-> ExpectedKeys(i)])
        /\ \A i \in 1..Len(chapter_sections) :
               OverBudget(i) => Len(EntriesOf(i)) >= 1

\* C16's case: a call with two level-1 sections, the first one split into at
\* least two parts "{number}.1", "{number}.2".
C16_Witness ==
    /\ ExReturned
    /\ Len(chapter_sections) = 2
    /\ chapter_sections[1].level = 1
    /\ OverBudget(1)
    /\ Len(extracted_sections) >= 2
    /\ extracted_sections[1].key = chapter_sections[1].number \o <<"1">>
    /\ extracted_sections[2].key = chapter_sections[1].number \o <<"2">>

\* The physical pages among those gone through for the i-th section whose
\* text extraction neither raises nor yields blank text, in order.
ReadablePages(i) ==
    LET readable(p) == p \notin ex_doc.raises /\ p \notin ex_doc.blank
    IN SelectSeq(PagesOfDocument(RequestedFor(i)), readable)

\* The pages whose texts are stored for the i-th section, in order.
StoredPages(i) ==
    LET texts == Flatten([k \in 1..Len(EntriesOf(i)) |-> EntriesOf(i)[k].text])
    IN [k \in 1..Len(texts) |-> texts[k].page]

\* C17: a page whose extraction raises or yields blank text is skipped and
\* the section's other pages are extracted; a section without a readable page
\* has no key in ExtractedSection nor in the distribution; no page makes the
\* call fail.
C17_UnreadablePagesSkipped ==
    /\ ExReturned =>
          /\ \A i \in 1..Len(chapter_sections) :
                /\ StoredPages(i) = ReadablePages(i)
                /\ ReadablePages(i) = <<>> => EntriesOf(i) = <<>>
          /\ Len(question_distribution) = Len(extracted_sections)
    /\ ex_pc = "raised" =>
          \/ ChapterEntries(desired_chapter) = <<>>
          \/ \E k \in 1..Len(ex_toc) :
                ex_toc[k].level = 0 /\ ~is_int(ex_toc[k].number[1])

\* C17's case: the first section was read and has no readable page, the
\* second has a page that raises among readable ones; only the second is in
\* the result.
C17_Witness ==
    /\ ExReturned
    /\ Len(chapter_sections) = 2
    /\ FetchedFor(1) # <<>>
    /\ ReadablePages(1) = <<>>
    /\ \E k \in 1..Len(FetchedFor(2)) : FetchedFor(2)[k] \in ex_doc.raises
    /\ ReadablePages(2) # <<>>
    /\ Len(extracted_sections) >= 1
    /\ \A k \in 1..Len(extracted_sections) :
          SubSeq(extracted_sections[k].key, 1, 2) = chapter_sections[2].number
    /\ Len(question_distribution) = Len(extracted_sections)

-----------------------------------------------------------------------------
(* find_toc_pages (toc_detector.py).                                       *)
(*                                                                         *)
(* A page is the sequence page.extract_words() returns: words with their   *)
(* text, their left edge x0 and the top of their line; a line is LineHeight *)
(* high and lines are LinePitch apart.  page.extract_text() is the lines    *)
(* of the page, the words of a line joined by one space.                   *)

PageWidth == 600        \* pdf.pages[0].mediabox[2]
LineHeight == 10
LinePitch == 20

word(text, x0, line) == [text |-> text, x0 |-> x0, top |-> line * LinePitch]

bottom(w) == w.top + LineHeight

\* str.lower() on the vocabulary of the documents
lower(text) ==
    CASE text = "Contents" -> "contents"
      [] text = "Brief"    -> "brief"
      [] text = "Index"    -> "index"
      [] text = "Chapter"  -> "chapter"
      [] text = "Summary"  -> "summary"
      [] text = "A."       -> "a."
      [] OTHER             -> text

\* str.isdigit()
isdigit(text) == text \in {"1", "7", "12", "30", "45"}

\* any(c.isdigit() for c in text)
has_digit(text) == isdigit(text) \/ text \in {"1.", "2.", "1.1"}

\* any(re.match(pattern, text) for pattern in toc_patterns), text lowercased
\* by the caller: '^[A-Z][\.\s]' never matches a lowercased text
matches_toc_patterns(text) == text \in {"chapter", "summary", "1.", "2.", "1.1"}

\* re.match(r'^(chapter|\d+\.)', text)
matches_columnar_pattern(text) == text \in {"chapter", "1.", "2.", "1.1"}

\* any(re.search(r'\b' + term + r'\b', text) for term in TOC_START_TERMS)
has_start_term(words) ==
    \E j \in 1..Len(words) : lower(words[j].text) = "contents"

\* any(term in text for term in TOC_SKIP_TERMS): "brief contents" on one line
has_skip_term(words) ==
    \E j \in 1..(Len(words) - 1) :
        /\ lower(words[j].text) = "brief"
        /\ lower(words[j + 1].text) = "contents"
        /\ words[j].top = words[j + 1].top

\* any(term in text for term in TOC_END_TERMS)
has_end_term(words) ==
    \E j \in 1..Len(words) : lower(words[j].text) = "index"

\* the while loop collecting next_words: the first `count` words after
\* position j whose text is not '.'
RECURSIVE next_words_from(_, _, _)
next_words_from(words, k, count) ==
    IF count = 0 \/ k > Len(words) THEN <<>>
    ELSE IF words[k].text # "." THEN <<words[k]>> \o next_words_from(words, k + 1, count - 1)
    ELSE next_words_from(words, k + 1, count)

next_words(words, j) == next_words_from(words, j + 1, 10)

\* w.x0 - word.x0 > page_width * 0.15
beyond_title_distance(w, head) == 100 * (w.x0 - head.x0) > 15 * PageWidth

\* the test of the probe and of the validation loops on a page: a word
\* other than the last that matches toc_patterns and has, among its
\* next_words, a number far enough to the right
has_valid_entry(words) ==
    \E j \in 1..(Len(words) - 1) :
        /\ matches_toc_patterns(lower(words[j].text))
        /\ \E n \in 1..Len(next_words(words, j)) :
              /\ isdigit(next_words(words, j)[n].text)
              /\ beyond_title_distance(next_words(words, j)[n], words[j])

\* physical pages are 0-based as in pdf.pages; page(doc, i) is pdf.pages[i]
page(doc, i) == doc[i + 1]

PROBE_LIMIT == 20

probe_pages_whole_document(doc) == 0..(Len(doc) - 1)

\* range(min(20, len(pdf.pages)))
probe_pages(doc) == 0..(Min2(PROBE_LIMIT, Len(doc)) - 1)

is_toc_start(words) ==
    /\ has_start_term(words)
    /\ ~has_skip_term(words)
    /\ has_valid_entry(words)

\* the first loop of find_toc_pages: the page the probe stops at, -1 when
\* toc_start_found stays False
probe(doc) ==
    LET hits == {i \in probe_pages(doc) : is_toc_start(page(doc, i))}
    IN  IF hits = {} THEN -1
        ELSE CHOOSE i \in hits : \A h \in hits : i <= h

\* the validation loop after a strategy: the pages of toc_pages with a
\* valid entry
count_valid_entries(doc, pages) ==
    Cardinality({i \in pages : has_valid_entry(page(doc, i))})

\* valid_entries >= len(toc_pages) // 2
accepted(doc, pages) ==
    count_valid_entries(doc, pages) >= Cardinality(pages) \div 2

\* [w for w in words if w['text'].isdigit()], as their x0 in word order
page_number_x(words) ==
    LET RECURSIVE from(_)
        from(k) == IF k > Len(words) THEN <<>>
                   ELSE IF isdigit(words[k].text) THEN <<words[k].x0>> \o from(k + 1)
                   ELSE from(k + 1)
    IN  from(1)

abs(d) == IF d < 0 THEN -d ELSE d

\* a tolerance is a fraction num / den of a point
closer_than(d, tol) == tol.den * abs(d) < tol.num

within(d, tol) == tol.den * abs(d) <= tol.num

\* statistics.mode: the most common value, the first one met among equals
mode(xs) ==
    LET count(x) == Cardinality({k \in 1..Len(xs) : xs[k] = x})
        best == CHOOSE k \in 1..Len(xs) :
                   /\ \A m \in 1..Len(xs) : count(xs[m]) <= count(xs[k])
                   /\ \A m \in 1..(k - 1) : count(xs[m]) < count(xs[k])
    IN  xs[best]

\* the loop building x_clusters: runs of neighbouring page numbers whose x0
\* are closer than the tolerance; a run of one number is no column
RECURSIVE x_clusters_from(_, _, _, _)
x_clusters_from(xs, k, current_cluster, tol) ==
    LET closed == IF Len(current_cluster) > 1 THEN <<mode(current_cluster)>> ELSE <<>>
    IN  IF k > Len(xs) THEN closed
        ELSE IF closer_than(xs[k] - current_cluster[Len(current_cluster)], tol)
        THEN x_clusters_from(xs, k + 1, Append(current_cluster, xs[k]), tol)
        ELSE closed \o x_clusters_from(xs, k + 1, <<xs[k]>>, tol)

\* column_x_coords after the start page; <<>> stands for None and for []
x_clusters(words, tol) ==
    IF page_number_x(words) = <<>> THEN <<>>
    ELSE x_clusters_from(page_number_x(words), 2, <<page_number_x(words)[1]>>, tol)

\* any(any(abs(x - col_x) <= tol ...)) on the current page
matches_structure(words, cols, tol) ==
    \E n \in 1..Len(page_number_x(words)) : \E c \in 1..Len(cols) :
        within(page_number_x(words)[n] - cols[c], tol)

\* any(any(abs(x - col_x) < tol ...)), the test on the next page
matches_structure_strictly(words, cols, tol) ==
    \E n \in 1..Len(page_number_x(words)) : \E c \in 1..Len(cols) :
        closer_than(page_number_x(words)[n] - cols[c], tol)

\* sum(1 for word in words if word['text'].isdigit())
page_numbers_found(words) == Len(page_number_x(words))

\* min(toc_pages)
min_page(pages) == CHOOSE i \in pages : \A h \in pages : i <= h

NotStarted == [toc_started |-> FALSE, toc_pages |-> {}, column_x_coords |-> <<>>]

ENHANCED_LIMIT == 30

column_tolerance == [num |-> 5 * PageWidth, den |-> 100]

\* entries_found of find_toc_pages_3
entries_found_3(words) ==
    Cardinality({j \in 1..(Len(words) - 1) :
        /\ matches_toc_patterns(lower(words[j].text))
        /\ \E n \in 1..Len(next_words(words, j)) :
              /\ isdigit(next_words(words, j)[n].text)
              /\ beyond_title_distance(next_words(words, j)[n], words[j])})

\* lines 453-512 of find_toc_pages_3 on page i once the table has started:
\* stop is a break, toc_pages the set after the iteration
follow_3(doc, i, st) ==
    LET words == page(doc, i)
        cols == st.column_x_coords
        has_next == i + 1 < Len(doc)
        structure_ends ==
            /\ cols # <<>>
            /\ page_number_x(words) # <<>>
            /\ ~matches_structure(words, cols, column_tolerance)
            /\ has_next => ~matches_structure_strictly(page(doc, i + 1), cols, column_tolerance)
        few == \/ entries_found_3(words) < 2
               \/ page_numbers_found(words) < 5 /\ i > min_page(st.toc_pages)
    IN  IF structure_ends THEN [stop |-> TRUE, toc_pages |-> st.toc_pages]
        ELSE IF few /\ ~has_next THEN [stop |-> TRUE, toc_pages |-> st.toc_pages]
        ELSE IF few /\ has_end_term(page(doc, i + 1))
        THEN [stop |-> TRUE, toc_pages |-> st.toc_pages \cup {i + 1}]
        ELSE IF few /\ page_numbers_found(words) < 5
        THEN [stop |-> TRUE, toc_pages |-> st.toc_pages]
        ELSE [stop |-> FALSE, toc_pages |-> st.toc_pages \cup {i}]

\* the loop of find_toc_pages_3 from page i on
RECURSIVE find_toc_pages_3_from(_, _, _)
find_toc_pages_3_from(doc, i, st) ==
    IF i >= Len(doc) THEN st.toc_pages
    ELSE LET words == page(doc, i)
             starts == /\ ~st.toc_started
                       /\ has_start_term(words)
                       /\ has_valid_entry(words)
             st1 == IF starts
                    THEN [toc_started |-> TRUE,
                          toc_pages |-> st.toc_pages \cup {i},
                          column_x_coords |-> x_clusters(words, column_tolerance)]
                    ELSE st
             after == IF st1.toc_started THEN follow_3(doc, i, st1)
                      ELSE [stop |-> FALSE, toc_pages |-> st1.toc_pages]
         IN  IF words = <<>> THEN find_toc_pages_3_from(doc, i + 1, st)
             ELSE IF ~st.toc_started /\ has_skip_term(words)
             THEN find_toc_pages_3_from(doc, i + 1, st)
             ELSE IF after.stop \/ i >= ENHANCED_LIMIT THEN after.toc_pages
             ELSE find_toc_pages_3_from(doc, i + 1,
                                        [st1 EXCEPT !.toc_pages = after.toc_pages])

find_toc_pages_3(doc) == find_toc_pages_3_from(doc, 0, NotStarted)

COLUMNAR_LIMIT == 40

COLUMNAR_DISTANCE == 100

columnar_tolerance == [num |-> 20, den |-> 1]

\* w['text'].isdigit() and w.x0 > word.x0 + 100 for some w of next_words
has_columnar_number(words, j) ==
    \E n \in 1..Len(next_words(words, j)) :
        /\ isdigit(next_words(words, j)[n].text)
        /\ next_words(words, j)[n].x0 > words[j].x0 + COLUMNAR_DISTANCE

\* entries_found of find_toc_pages_2
entries_found_2(words) ==
    Cardinality({j \in 1..(Len(words) - 1) :
        /\ matches_columnar_pattern(lower(words[j].text))
        /\ has_columnar_number(words, j)})

\* lines 320-368 of find_toc_pages_2 on page i once the table has started
follow_2(doc, i, st) ==
    LET words == page(doc, i)
        cols == st.column_x_coords
        has_next == i + 1 < Len(doc)
        structure_ends ==
            /\ cols # <<>>
            /\ page_number_x(words) # <<>>
            /\ ~matches_structure_strictly(words, cols, columnar_tolerance)
            /\ has_next => ~matches_structure_strictly(page(doc, i + 1), cols, columnar_tolerance)
        few == entries_found_2(words) < 2 /\ i > min_page(st.toc_pages)
    IN  IF structure_ends THEN [stop |-> TRUE, toc_pages |-> st.toc_pages]
        ELSE IF few /\ ~has_next THEN [stop |-> TRUE, toc_pages |-> st.toc_pages]
        ELSE IF few /\ has_end_term(page(doc, i + 1))
        THEN [stop |-> TRUE, toc_pages |-> st.toc_pages]
        ELSE [stop |-> FALSE, toc_pages |-> st.toc_pages \cup {i}]

\* the loop of find_toc_pages_2 from page i on
RECURSIVE find_toc_pages_2_from(_, _, _)
find_toc_pages_2_from(doc, i, st) ==
    IF i >= Len(doc) THEN st.toc_pages
    ELSE LET words == page(doc, i)
             starts == /\ ~st.toc_started
                       /\ has_start_term(words)
                       /\ entries_found_2(words) > 0
             st1 == IF starts
                    THEN [toc_started |-> TRUE,
                          toc_pages |-> st.toc_pages \cup {i},
                          column_x_coords |-> x_clusters(words, columnar_tolerance)]
                    ELSE st
             after == IF st1.toc_started THEN follow_2(doc, i, st1)
                      ELSE [stop |-> FALSE, toc_pages |-> st1.toc_pages]
         IN  IF words = <<>> THEN find_toc_pages_2_from(doc, i + 1, st)
             ELSE IF ~st.toc_started /\ has_skip_term(words)
             THEN find_toc_pages_2_from(doc, i + 1, st)
             ELSE IF after.stop \/ i >= COLUMNAR_LIMIT THEN after.toc_pages
             ELSE find_toc_pages_2_from(doc, i + 1,
                                        [st1 EXCEPT !.toc_pages = after.toc_pages])

find_toc_pages_2(doc) == find_toc_pages_2_from(doc, 0, NotStarted)

DENSITY_LIMIT == 30

\* numeric_words: words with a digit in them ('.' and ',' have none)
numeric_words(words) ==
    Cardinality({k \in 1..Len(words) : has_digit(words[k].text)})

\* numeric_density as the fraction num / den; 0 for a page without words
numeric_density(words) ==
    IF words = <<>> THEN [num |-> 0, den |-> 1]
    ELSE [num |-> numeric_words(words), den |-> Len(words)]

\* d < p / q for a density d
density_below(d, p, q) == d.num * q < p * d.den

\* d > p / q
density_above(d, p, q) == d.num * q > p * d.den

\* numeric_density < prev_numeric_density * 0.5
below_half_of(d, prev) == 2 * d.num * prev.den < prev.num * d.den

\* sorted(words, key=lambda w: w['top']): a stable sort
RECURSIVE sorted_by_top(_)
sorted_by_top(words) ==
    IF words = <<>> THEN <<>>
    ELSE LET w == words[Len(words)]
             rest == sorted_by_top(SubSeq(words, 1, Len(words) - 1))
             before == Cardinality({k \in 1..Len(rest) : rest[k].top <= w.top})
         IN  SubSeq(rest, 1, before) \o <<w>> \o SubSeq(rest, before + 1, Len(rest))

\* spacings between consecutive words in that order
spacings(words) ==
    [k \in 1..(Len(words) - 1) |->
        sorted_by_top(words)[k + 1].top - bottom(sorted_by_top(words)[k])]

SumSquares(s) == SumSeq([k \in 1..Len(s) |-> s[k] * s[k]])

\* spacing_variance < 5; the variance of no spacings is infinite
spacing_variance_below_5(words) ==
    LET s == spacings(words)
        n == Len(s)
    IN  /\ n > 0
        /\ n * SumSquares(s) - SumSeq(s) * SumSeq(s) < 5 * n * n

\* lines 230-254 of find_toc_pages_1 on page i once the table has started
follow_1(doc, i, st) ==
    LET words == page(doc, i)
        d == numeric_density(words)
        has_next == i + 1 < Len(doc)
        density_drops ==
            /\ below_half_of(d, st.prev_numeric_density)
            /\ density_below(d, 1, 10)
            /\ has_next
            /\ density_below(numeric_density(page(doc, i + 1)), 1, 10)
        paragraph_style ==
            /\ spacing_variance_below_5(words)
            /\ density_below(d, 15, 100)
    IN  IF density_drops \/ paragraph_style
        THEN [stop |-> TRUE, toc_pages |-> st.toc_pages,
              prev_numeric_density |-> st.prev_numeric_density]
        ELSE [stop |-> FALSE, toc_pages |-> st.toc_pages \cup {i},
              prev_numeric_density |-> d]

\* the loop of find_toc_pages_1 from page i on
RECURSIVE find_toc_pages_1_from(_, _, _)
find_toc_pages_1_from(doc, i, st) ==
    IF i >= Len(doc) THEN st.toc_pages
    ELSE LET words == page(doc, i)
             d == numeric_density(words)
             starts == /\ ~st.toc_started
                       /\ has_start_term(words)
                       /\ density_above(d, 8, 100)
             st1 == IF starts
                    THEN [toc_started |-> TRUE,
                          toc_pages |-> st.toc_pages \cup {i},
                          prev_numeric_density |-> d]
                    ELSE st
             after == IF st1.toc_started THEN follow_1(doc, i, st1)
                      ELSE [stop |-> FALSE, toc_pages |-> st1.toc_pages,
                            prev_numeric_density |-> st1.prev_numeric_density]
         IN  IF words = <<>> THEN find_toc_pages_1_from(doc, i + 1, st)
             ELSE IF ~st.toc_started /\ has_skip_term(words)
             THEN find_toc_pages_1_from(doc, i + 1, st)
             ELSE IF after.stop \/ i >= DENSITY_LIMIT THEN after.toc_pages
             ELSE find_toc_pages_1_from(doc, i + 1,
                     [st1 EXCEPT !.toc_pages = after.toc_pages,
                                 !.prev_numeric_density = after.prev_numeric_density])

find_toc_pages_1(doc) ==
    find_toc_pages_1_from(doc, 0,
        [toc_started |-> FALSE, toc_pages |-> {},
         prev_numeric_density |-> [num |-> 0, den |-> 1]])

ORIGINAL_LIMIT == 20

\* the start test of find_toc_pages_original: a word '1', or 'chapter'
\* followed by '1', with a number among words[j+1:j+10]
has_first_entry(words) ==
    \E j \in 1..Len(words) :
        /\ \/ words[j].text = "1"
           \/ /\ lower(words[j].text) = "chapter"
              /\ j + 1 <= Len(words)
              /\ words[j + 1].text = "1"
        /\ \E k \in (j + 1)..Min2(j + 9, Len(words)) : isdigit(words[k].text)

\* the loop of find_toc_pages_original from page i on
RECURSIVE find_toc_pages_original_from(_, _, _)
find_toc_pages_original_from(doc, i, st) ==
    IF i >= Len(doc) THEN st.toc_pages
    ELSE LET words == page(doc, i)
             starts == /\ ~st.toc_started
                       /\ has_start_term(words)
                       /\ has_first_entry(words)
             started == st.toc_started \/ starts
             pages == IF started THEN st.toc_pages \cup {i} ELSE st.toc_pages
         IN  IF ~st.toc_started /\ has_skip_term(words)
             THEN find_toc_pages_original_from(doc, i + 1, st)
             ELSE IF started /\ has_end_term(words) THEN pages
             ELSE IF i >= ORIGINAL_LIMIT THEN pages
             ELSE find_toc_pages_original_from(doc, i + 1,
                     [toc_started |-> started, toc_pages |-> pages])

find_toc_pages_original(doc) ==
    find_toc_pages_original_from(doc, 0, [toc_started |-> FALSE, toc_pages |-> {}])

(* Documents.  A page is written as its lines, a line as <<text, x0>>      *)
(* pairs; headings stand at HeadingX, titles at TitleX, page numbers in    *)
(* the column at NumberX.                                                  *)

HeadingX == 50
TitleX == 120
LeaderX == 300
NumberX == 500

page_of_lines(lines) ==
    Flatten([l \in 1..Len(lines) |->
                [k \in 1..Len(lines[l]) |-> word(lines[l][k][1], lines[l][k][2], l - 1)]])

\* heading, title, a dot leader, page number in the column
entry(heading, number) ==
    <<<<heading, HeadingX>>, <<"lorem", TitleX>>, <<".", LeaderX>>, <<number, NumberX>>>>

\* an entry whose number stands dx to the right of its heading
entry_at(heading, number, dx) == <<<<heading, HeadingX>>, <<number, HeadingX + dx>>>>

prose == <<<<"lorem", HeadingX>>>>

title_line == <<<<"Contents", HeadingX>>>>

BlankPage == <<>>

BodyPage == page_of_lines(<<prose, prose, prose, prose>>)

ContinuationLines ==
    <<entry("1.", "1"), entry("1.1", "7"), entry("2.", "12"), entry("1.1", "30"),
      entry("Summary", "45")>>

\* a full page of a table of contents, with and without its title
TocPage == page_of_lines(<<title_line>> \o ContinuationLines)

ContinuationPage == page_of_lines(ContinuationLines)

\* the last page of a table: one entry, then prose
TailPage == page_of_lines(<<entry("2.", "30"), prose, prose>>)

\* a titled page whose entries only the enhanced patterns know
SummariesPage ==
    page_of_lines(<<title_line, entry("Summary", "7"), entry("Summary", "12")>>)

\* a titled page with a single short entry
ShortTocPage == page_of_lines(<<title_line, entry("1.", "7")>>)

\* numbers in the column, no headings
NumbersPage ==
    page_of_lines(<<<<<<"7", NumberX>>>>, <<<<"12", NumberX>>>>, <<<<"30", NumberX>>>>,
                    <<<<"45", NumberX>>>>, <<<<"7", NumberX>>>>, <<<<"lorem", HeadingX>>>>>>)

\* numbers away from the column
MarginNumbersPage ==
    page_of_lines(<<<<<<"7", TitleX>>>>, prose, <<<<"12", TitleX>>>>>>)

\* "Brief Contents", then a table
BriefPage ==
    page_of_lines(<<<<<<"Brief", HeadingX>>, <<"Contents", TitleX>>>>>> \o ContinuationLines)

IndexPage == page_of_lines(<<<<<<"Index", HeadingX>>>>, prose, prose>>)

\* a titled page whose number is 95 points right of its heading
NearPage == page_of_lines(<<title_line, entry_at("1.", "7", 95), entry_at("2.", "12", 95)>>)

\* ... and 90 points right of it: not beyond 15 percent of the width
TooNearPage == page_of_lines(<<title_line, entry_at("1.", "7", 90)>>)

words_between(n) == [k \in 1..n |-> <<"lorem", TitleX>>]

\* ten words between heading and number, and nine words and three dots
FarNumberPage ==
    page_of_lines(<<title_line,
                    <<<<"1.", HeadingX>>>> \o words_between(10) \o <<<<"7", NumberX>>>>>>)

DottedPage ==
    page_of_lines(<<title_line,
                    <<<<"1.", HeadingX>>>> \o words_between(9)
                        \o <<<<".", LeaderX>>, <<".", LeaderX + 5>>, <<".", LeaderX + 10>>>>
                        \o <<<<"7", NumberX>>>>>>)

\* "Chapter 1 lorem . 7"
ChapterOnePage ==
    page_of_lines(<<title_line,
                    <<<<"Chapter", HeadingX>>, <<"1", HeadingX + 60>>, <<"lorem", TitleX + 60>>,
                      <<".", LeaderX>>, <<"7", NumberX>>>>>>)

\* a title and prose
TitleOnlyPage == page_of_lines(<<title_line, prose, prose>>)

\* a title, "1" and numbers below each other, the heading last on the page
ListPage ==
    page_of_lines(<<title_line, <<<<"1", HeadingX>>>>, <<<<"7", HeadingX>>>>,
                    <<<<"A.", HeadingX>>>>, <<<<"1.", HeadingX>>>>>>)

CorePages ==
    { BlankPage, BodyPage, TocPage, ContinuationPage, TailPage, SummariesPage,
      ShortTocPage, NumbersPage, MarginNumbersPage, BriefPage, IndexPage, NearPage,
      TooNearPage, FarNumberPage, DottedPage, ChapterOnePage, TitleOnlyPage, ListPage }

MaxCorePages == 1

repeat(p, n) == [k \in 1..n |-> p]

\* an optional first page
FirstPages ==
    {<<>>, <<TocPage>>, <<ListPage>>, <<BriefPage>>, <<NearPage>>, <<BlankPage>>}

\* pages of prose before the core: none, one, and around the probe's limit
LeadPages == {0, 1, PROBE_LIMIT - 1, PROBE_LIMIT}

\* pages repeated after the core: none, continuation pages past every
\* strategy's limit, and one or three pages of numbers
RunPages ==
    { repeat(ContinuationPage, 0), repeat(ContinuationPage, COLUMNAR_LIMIT + 2),
      repeat(NumbersPage, 1), repeat(NumbersPage, 3) }

LastPages == {BodyPage, IndexPage}

TocDocs ==
    { first \o repeat(BodyPage, lead) \o core \o run \o <<last>> :
        first \in FirstPages, lead \in LeadPages, run \in RunPages, last \in LastPages,
        core \in UNION {[1..n -> CorePages] : n \in 1..MaxCorePages} }

TocInit ==
    /\ DQIdle
    /\ OffIdle
    /\ ExIdle
    /\ EcIdle
    /\ RmIdle
    /\ toc_doc \in TocDocs
    /\ toc_start_page = -1
    /\ toc_pages = {}
    /\ valid_entries = 0
    /\ toc_tried = <<>>
    /\ toc_return = {}
    /\ toc_pc = "probe"

\* lines 39-67: the probe
TocProbe ==
    /\ toc_pc = "probe"
    /\ toc_start_page' = probe(toc_doc)
    /\ IF toc_start_page' = -1
       THEN toc_return' = {} /\ toc_pc' = "returned"
       ELSE toc_return' = toc_return /\ toc_pc' = "find_toc_pages_3"
    /\ UNCHANGED <<toc_doc, toc_pages, valid_entries, toc_tried>>
    /\ UNCHANGED <<dqVars, offVars, exVars, ecVars, rmVars>>

try_strategy_without_validation(name, pages, fallback) ==
    /\ toc_pc = name
    /\ toc_pages' = pages
    /\ toc_tried' = Append(toc_tried, name)
    /\ valid_entries' = valid_entries
    /\ IF pages # {}
       THEN toc_return' = pages /\ toc_pc' = "returned"
       ELSE toc_return' = toc_return /\ toc_pc' = fallback
    /\ UNCHANGED <<toc_doc, toc_start_page>>
    /\ UNCHANGED <<dqVars, offVars, exVars, ecVars, rmVars>>

\* a strategy, then the validation of its pages (lines 70-93, 97-120, 124-147)
try_strategy(name, pages, fallback) ==
    /\ toc_pc = name
    /\ toc_pages' = pages
    /\ toc_tried' = Append(toc_tried, name)
    /\ valid_entries' = IF pages = {} THEN valid_entries
                        ELSE count_valid_entries(toc_doc, pages)
    /\ IF pages # {} /\ accepted(toc_doc, pages)
       THEN toc_return' = pages /\ toc_pc' = "returned"
       ELSE toc_return' = toc_return /\ toc_pc' = fallback
    /\ UNCHANGED <<toc_doc, toc_start_page>>
    /\ UNCHANGED <<dqVars, offVars, exVars, ecVars, rmVars>>

TocEnhanced == try_strategy("find_toc_pages_3", find_toc_pages_3(toc_doc), "find_toc_pages_2")

TocColumnar == try_strategy("find_toc_pages_2", find_toc_pages_2(toc_doc), "find_toc_pages_1")

TocNumeric ==
    try_strategy("find_toc_pages_1", find_toc_pages_1(toc_doc), "find_toc_pages_original")

\* line 151: the fallback's pages are returned as they are
TocOriginal ==
    /\ toc_pc = "find_toc_pages_original"
    /\ toc_pages' = find_toc_pages_original(toc_doc)
    /\ toc_tried' = Append(toc_tried, "find_toc_pages_original")
    /\ toc_return' = toc_pages'
    /\ toc_pc' = "returned"
    /\ UNCHANGED <<toc_doc, toc_start_page, valid_entries>>
    /\ UNCHANGED <<dqVars, offVars, exVars, ecVars, rmVars>>

TocNext == TocProbe \/ TocEnhanced \/ TocColumnar \/ TocNumeric \/ TocOriginal

SpecToc == TocInit /\ [][TocNext]_vars

-----------------------------------------------------------------------------
(* Properties of find_toc_pages.                                           *)

TocReturned == toc_pc = "returned"

TocPagesOfDocument == 0..(Len(toc_doc) - 1)

\* the existence probe's test on physical page i
PassesProbe(i) == is_toc_start(page(toc_doc, i))

\* C18: when no page among the first 20 passes the existence probe,
\* find_toc_pages returns the empty list and runs no detection strategy.
C18_NoProbeNoStrategy ==
    (toc_pc # "probe" /\ \A i \in TocPagesOfDocument : i < 20 => ~PassesProbe(i))
        => /\ TocReturned
           /\ toc_return = {}
           /\ toc_tried = <<>>

\* the table of contents starts on the 21st page or later, and the call
\* returned without a strategy
C18_Witness ==
    /\ TocReturned
    /\ toc_tried = <<>>
    /\ toc_return = {}
    /\ \E i \in TocPagesOfDocument : i >= 20 /\ PassesProbe(i)

Priority ==
    <<"find_toc_pages_3", "find_toc_pages_2", "find_toc_pages_1", "find_toc_pages_original">>

\* what a strategy returns on the document
Output(name) ==
    CASE name = "find_toc_pages_3" -> find_toc_pages_3(toc_doc)
      [] name = "find_toc_pages_2" -> find_toc_pages_2(toc_doc)
      [] name = "find_toc_pages_1" -> find_toc_pages_1(toc_doc)
      [] name = "find_toc_pages_original" -> find_toc_pages_original(toc_doc)

\* a strategy's output is not empty and passes the validation
Validates(name) == Output(name) # {} /\ accepted(toc_doc, Output(name))

\* C19: after a successful probe the strategies run in the order enhanced,
\* columnar, numeric density, original; the call returns the output of the
\* first strategy whose non-empty output passes validation, every strategy
\* before it was empty or failed validation, and when none validates the
\* original strategy's output is returned as it is.
C19_FirstValidatedInPriorityOrder ==
    /\ toc_tried = SubSeq(Priority, 1, Len(toc_tried))
    /\ \A k \in 1..(Len(toc_tried) - 1) : ~Validates(toc_tried[k])
    /\ (TocReturned /\ toc_start_page # -1) =>
          /\ toc_tried # <<>>
          /\ toc_return = Output(toc_tried[Len(toc_tried)])
          /\ Len(toc_tried) < Len(Priority) => Validates(toc_tried[Len(toc_tried)])
    /\ (~TocReturned /\ toc_tried # <<>>) => ~Validates(toc_tried[Len(toc_tried)])

\* the numeric density strategy's output is returned after the enhanced
\* strategy's output failed validation
C19_Witness ==
    /\ TocReturned
    /\ Len(toc_tried) = 3
    /\ find_toc_pages_3(toc_doc) # {}
    /\ toc_return = find_toc_pages_1(toc_doc)
    /\ toc_return # find_toc_pages_3(toc_doc)

\* the pages of a set that show at least one qualifying entry
PagesWithEntry(pages) == {i \in pages : has_valid_entry(page(toc_doc, i))}

\* C20: the output of the enhanced, columnar or numeric density strategy is
\* accepted only if at least half of its pages show a qualifying entry,
\* whatever the size of the page set.
C20_AcceptedOnlyIfHalfValid ==
    (TocReturned /\ toc_tried # <<>> /\ Len(toc_tried) < Len(Priority))
        => 2 * Cardinality(PagesWithEntry(toc_return)) >= Cardinality(toc_return)

\* C21: the page set find_toc_pages returns is a contiguous run of physical
\* page indices: with p and q returned, every index between them is
\* returned too.
C21_ReturnedPagesContiguous ==
    TocReturned =>
        \A p \in toc_return : \A q \in toc_return : \A i \in p..q : i \in toc_return

-----------------------------------------------------------------------------
(* extract_chapter (parser.py).                                            *)

\* find_toc_pages as a function of the document: the probe, then the
\* cascade of toc_detector.py lines 69-151
find_toc_pages(doc) ==
    IF probe(doc) = -1 THEN {}
    ELSE IF find_toc_pages_3(doc) # {} /\ accepted(doc, find_toc_pages_3(doc))
    THEN find_toc_pages_3(doc)
    ELSE IF find_toc_pages_2(doc) # {} /\ accepted(doc, find_toc_pages_2(doc))
    THEN find_toc_pages_2(doc)
    ELSE IF find_toc_pages_1(doc) # {} /\ accepted(doc, find_toc_pages_1(doc))
    THEN find_toc_pages_1(doc)
    ELSE find_toc_pages_original(doc)

\* max(toc_pages)
max_page(pages) == CHOOSE i \in pages : \A h \in pages : h <= i

\* def parse_table_of_contents(pdf, toc_pages) (line 19)
parse_table_of_contents_parameters == <<"pdf", "toc_pages">>

\* parse_table_of_contents(pdf) (line 62)
parse_table_of_contents_arguments == <<"pdf">>

\* Python's binding of positional arguments to required parameters
bind_arguments(parameters, arguments) ==
    IF Len(arguments) = Len(parameters) THEN "bound" ELSE "TypeError"

\* the documents extract_chapter is called on
EcDocs == {d \in TocDocs : Len(d) <= 2 * MaxCorePages + 4}

EcInit ==
    /\ DQIdle
    /\ OffIdle
    /\ ExIdle
    /\ TocIdle
    /\ RmIdle
    /\ ec_pdf \in EcDocs
    /\ ec_stages \in [structures : BOOLEAN, offset_resolves : BOOLEAN, chapter_exists : BOOLEAN]
    /\ ec_toc_pages = {}
    /\ ec_last_toc_page = -1
    /\ ec_pending = ""
    /\ ec_return = <<>>
    /\ ec_error = NoError
    /\ ec_pc = "find_toc_pages"

\* lines 57-61
EcLocate ==
    /\ ec_pc = "find_toc_pages"
    /\ ec_toc_pages' = find_toc_pages(ec_pdf)
    /\ IF ec_toc_pages' = {}
       THEN /\ ec_pending' = "TOCNotFoundError"
            /\ ec_pc' = "except"
            /\ UNCHANGED ec_last_toc_page
       ELSE /\ ec_last_toc_page' = max_page(ec_toc_pages')
            /\ ec_pc' = "parse_table_of_contents"
            /\ UNCHANGED ec_pending
    /\ UNCHANGED <<ec_pdf, ec_stages, ec_return, ec_error>>
    /\ UNCHANGED <<dqVars, offVars, exVars, tocVars, rmVars>>

\* line 62: the call of parse_table_of_contents
EcParseToc ==
    /\ ec_pc = "parse_table_of_contents"
    /\ IF bind_arguments(parse_table_of_contents_parameters,
                         parse_table_of_contents_arguments) = "TypeError"
       THEN ec_pending' = "TypeError" /\ ec_pc' = "except"
       ELSE ec_pending' = ec_pending /\ ec_pc' = "process_toc"
    /\ UNCHANGED <<ec_pdf, ec_stages, ec_toc_pages, ec_last_toc_page, ec_return, ec_error>>
    /\ UNCHANGED <<dqVars, offVars, exVars, tocVars, rmVars>>

\* lines 86-88
EcExcept ==
    /\ ec_pc = "except"
    /\ ec_error' = wrapped(ec_pending)
    /\ ec_pc' = "raised"
    /\ UNCHANGED <<ec_pdf, ec_stages, ec_toc_pages, ec_last_toc_page, ec_pending, ec_return>>
    /\ UNCHANGED <<dqVars, offVars, exVars, tocVars, rmVars>>

\* Lines 66-84 (process_toc, find_page_offset, extract_chapter_sections,
\* return) are never reached: line 62 raises on every call that gets there.
EcNext == EcLocate \/ EcParseToc \/ EcExcept

SpecChapter == EcInit /\ [][EcNext]_vars

EcDone == ec_pc \in {"returned", "raised"}

\* C22: when the table of contents is found, the structuring collaborator
\* returns a structure, the offset resolves and the chapter exists,
\* extract_chapter returns a dictionary of sections.
C22_ReturnsSectionsWhenAllStagesSucceed ==
    (/\ EcDone
     /\ find_toc_pages(ec_pdf) # {}
     /\ ec_stages.structures
     /\ ec_stages.offset_resolves
     /\ ec_stages.chapter_exists) => ec_pc = "returned"

-----------------------------------------------------------------------------
(* Properties of the enhanced strategy.                                    *)

\* find_toc_pages_3 has just run: toc_pages is its result
EnhancedRan == toc_tried # <<>> /\ toc_tried[Len(toc_tried)] = "find_toc_pages_3"

\* C23: the enhanced strategy abandons after 30 pages scanned from the start
\* of the table: its result holds at most 30 pages and no page 30 or more
\* positions after the start page.
C23_EnhancedWithinThirtyPages ==
    (EnhancedRan /\ toc_pages # {}) =>
        /\ Cardinality(toc_pages) <= 30
        /\ \A i \in toc_pages : i - min_page(toc_pages) < 30

\* the columns established on the start page of a result
EstablishedColumns(pages) == x_clusters(page(toc_doc, min_page(pages)), column_tolerance)

\* the per-page test of the enhanced strategy: at least 2 qualifying
\* entries, at least 5 digit tokens, a digit token in an established column
QualifiesAsTocPage(i, cols) ==
    LET words == page(toc_doc, i)
    IN  /\ entries_found_3(words) >= 2
        /\ page_numbers_found(words) >= 5
        /\ cols # <<>> => matches_structure(words, cols, column_tolerance)

\* C24: the enhanced strategy ends the table at a page failing the per-page
\* test only after the following page failed it too: a sparse page followed
\* by a qualifying page does not end the table.
C24_SparsePageDoesNotEndTable ==
    (EnhancedRan /\ toc_pages # {}) =>
        \A i \in TocPagesOfDocument :
            (/\ i > min_page(toc_pages)
             /\ i + 1 < Len(toc_doc)
             /\ i < ENHANCED_LIMIT
             /\ \A h \in min_page(toc_pages)..(i - 1) : h \in toc_pages
             /\ page(toc_doc, i) # <<>>
             /\ ~QualifiesAsTocPage(i, EstablishedColumns(toc_pages))
             /\ QualifiesAsTocPage(i + 1, EstablishedColumns(toc_pages)))
                => i + 1 \in toc_pages

-----------------------------------------------------------------------------
(* Corroboration of the offsets of find_page_offset.                       *)

\* the entries an offset can come from, with the tag of their candidates
OffsetEntries ==
    IF chapters(structured_toc) = <<>> THEN {}
    ELSE {[entry |-> first_chapter(structured_toc), tag |-> "chapter"]}
         \cup {[entry |-> first_section(structured_toc)[k], tag |-> "section"] :
                  k \in 1..Len(first_section(structured_toc))}

\* e's logical page is among the numbers of the first or last three lines of p
NumberShown(p, e) == InSeq(e.page, extract_page_numbers(pdf_page_text(off_doc, p)))

\* e's title is in the text of p: as a phrase, or all its words
TitleShown(p, e) ==
    \/ exact_match(clean_text(pdf_page_text(off_doc, p)), clean_title(e.title))
    \/ fuzzy_match(clean_text(pdf_page_text(off_doc, p)), clean_title(e.title))

\* C25: every offset find_page_offset records or returns is corroborated by
\* a page p of the search window and the first chapter or its first section
\* e: the offset is p - e.page, p shows e.page among the numbers of its
\* first or last three lines and e's title is in p's text; a page showing
\* the number without the title contributes no offset.
C25_OffsetsCorroborated ==
    /\ \A k \in 1..Len(potential_offsets) :
          \E p \in SearchRange : \E e \in OffsetEntries :
              /\ potential_offsets[k] = <<p - e.entry.page, e.tag>>
              /\ NumberShown(p, e.entry)
              /\ TitleShown(p, e.entry)
    /\ off_pc = "returned" =>
          \E p \in SearchRange : \E e \in OffsetEntries :
              /\ off_return = p - e.entry.page
              /\ NumberShown(p, e.entry)
              /\ TitleShown(p, e.entry)
    /\ \A p \in SearchRange : \A e \in OffsetEntries :
          (NumberShown(p, e.entry) /\ ~TitleShown(p, e.entry))
              => ~InSeq(<<p - e.entry.page, e.tag>>, potential_offsets)

\* an offset was returned although a page of the window shows the first
\* chapter's page number without its title
C25_Witness ==
    /\ off_pc = "returned"
    /\ \E p \in SearchRange : \E e \in OffsetEntries :
          /\ e.tag = "chapter"
          /\ NumberShown(p, e.entry)
          /\ ~TitleShown(p, e.entry)
          /\ off_return # p - e.entry.page

-----------------------------------------------------------------------------
(* extract_chapter_sections with its ResourceMonitor (resource_monitor.py). *)
(* Every 'with monitor.throttle_if_needed()' is a loop of check_resources   *)
(* and time.sleep before its body: around a batch (line 191), around a page *)
(* (line 124) and around the encoding of a long section (line 212).         *)

cpu_threshold == 70
memory_threshold == 80

check_resources_cpu_only(cpu_percent, memory_percent) == cpu_percent < cpu_threshold

\* lines 14-18
check_resources(cpu_percent, memory_percent) ==
    cpu_percent < cpu_threshold /\ memory_percent < memory_threshold

\* what psutil can report: below, at and above each threshold
CpuReadings == {cpu_threshold - 20, cpu_threshold, cpu_threshold + 20}
MemoryReadings == {memory_threshold - 20, memory_threshold, memory_threshold + 15}

MaxSleeps == 1

PcInit ==
    /\ ex_doc \in {d \in ExDocs : d.numPages = ExPagesShort}
    /\ ex_toc \in ExTocs
    /\ page_offset \in {-4, 0}
    /\ desired_chapter \in {1, 2, 3}
    /\ \E call \in {<<2, 1>>, <<100, 5>>} :
           /\ max_tokens = call[1]
           /\ total_questions = call[2]
    /\ chapter_sections = <<>>
    /\ pdf_limit = 0
    /\ section_index = 0
    /\ batch_start = 0
    /\ section_texts = <<>>
    /\ extracted_sections = <<>>
    /\ question_distribution = <<>>
    /\ ex_requested = <<>>
    /\ ex_fetched = <<>>
    /\ ex_error = NoError
    /\ ex_pc = "start"
    /\ rm_cpu = 0
    /\ rm_memory = 0
    /\ rm_sleeps = 0
    /\ rm_target = ""
    /\ rm_page = 0
    /\ rm_pc = "loop"
    /\ DQIdle
    /\ OffIdle
    /\ TocIdle
    /\ EcIdle

current_end_page == end_page(chapter_sections, section_index, page_offset, pdf_limit)

current_batch == batch_pages(batch_start, current_end_page)

\* line 211: the section joined from section_texts is longer than MAX_CHARS
needs_encoding(texts) ==
    texts # <<>> /\ content_length(texts) > max_tokens * CHARS_PER_TOKEN

exLoopVars == <<chapter_sections, pdf_limit, section_index, batch_start, section_texts,
                extracted_sections, question_distribution, ex_requested, ex_fetched,
                ex_error, ex_pc>>

\* entering a 'with monitor.throttle_if_needed()' whose body is `target`
enter_throttle(target) ==
    /\ rm_pc' = "throttle"
    /\ rm_target' = target
    /\ UNCHANGED <<rm_cpu, rm_memory, rm_sleeps, rm_page>>
    /\ UNCHANGED exLoopVars
    /\ UNCHANGED exInputs
    /\ UNCHANGED <<dqVars, offVars, tocVars, ecVars>>

\* line 191: the throttle around a batch
PcBatchThrottle ==
    /\ ex_pc = "batch"
    /\ rm_pc = "loop"
    /\ batch_start < current_end_page
    /\ enter_throttle("batch")

\* lines 22-23: one check of the throttle loop; time.sleep when it fails
RmCheck ==
    /\ rm_pc = "throttle"
    /\ \E cpu_percent \in CpuReadings : \E memory_percent \in MemoryReadings :
          /\ rm_cpu' = cpu_percent
          /\ rm_memory' = memory_percent
          /\ IF check_resources(cpu_percent, memory_percent)
             THEN /\ rm_pc' = rm_target
                  /\ UNCHANGED rm_sleeps
             ELSE /\ rm_sleeps < MaxSleeps
                  /\ rm_sleeps' = rm_sleeps + 1
                  /\ UNCHANGED rm_pc
    /\ UNCHANGED <<rm_target, rm_page>>
    /\ UNCHANGED exLoopVars
    /\ UNCHANGED exInputs
    /\ UNCHANGED <<dqVars, offVars, tocVars, ecVars>>

\* line 192: the batch's body calls process_page_batch
PcBatchBody ==
    /\ rm_pc = "batch"
    /\ rm_pc' = "pages"
    /\ rm_page' = 0
    /\ UNCHANGED <<rm_cpu, rm_memory, rm_sleeps, rm_target>>
    /\ UNCHANGED exLoopVars
    /\ UNCHANGED exInputs
    /\ UNCHANGED <<dqVars, offVars, tocVars, ecVars>>

\* line 124: the throttle around a page of the batch
PcPageThrottle ==
    /\ rm_pc = "pages"
    /\ rm_page < Len(current_batch)
    /\ enter_throttle("page")

\* lines 125-136: one page of the batch
PcPageBody ==
    /\ rm_pc = "page"
    /\ LET page_num == current_batch[rm_page + 1]
       IN /\ section_texts' = section_texts \o page_texts(ex_doc, page_num)
          /\ ex_requested' = Append(ex_requested, <<section_index, page_num>>)
          /\ ex_fetched' = ex_fetched \o pages_fetched(ex_doc, <<page_num>>, section_index)
    /\ rm_page' = rm_page + 1
    /\ rm_pc' = "pages"
    /\ UNCHANGED <<rm_cpu, rm_memory, rm_sleeps, rm_target>>
    /\ UNCHANGED <<chapter_sections, pdf_limit, section_index, batch_start,
                   extracted_sections, question_distribution, ex_error, ex_pc>>
    /\ UNCHANGED exInputs
    /\ UNCHANGED <<dqVars, offVars, tocVars, ecVars>>

\* lines 142, 193: the batch is over
PcBatchEnd ==
    /\ rm_pc = "pages"
    /\ rm_page = Len(current_batch)
    /\ batch_start' = batch_start + batch_size
    /\ rm_pc' = "loop"
    /\ UNCHANGED <<rm_cpu, rm_memory, rm_sleeps, rm_target, rm_page>>
    /\ UNCHANGED <<chapter_sections, pdf_limit, section_index, section_texts,
                   extracted_sections, question_distribution, ex_requested, ex_fetched,
                   ex_error, ex_pc>>
    /\ UNCHANGED exInputs
    /\ UNCHANGED <<dqVars, offVars, tocVars, ecVars>>

\* line 212: the throttle around the encoding of a long section
PcEncodeThrottle ==
    /\ ex_pc = "batch"
    /\ rm_pc = "loop"
    /\ batch_start >= current_end_page
    /\ needs_encoding(section_texts)
    /\ enter_throttle("encode")

\* lines 196-249: the section is stored, after the throttle when it is long
PcStoreSection ==
    /\ ex_pc = "batch"
    /\ \/ rm_pc = "encode"
       \/ /\ rm_pc = "loop"
          /\ batch_start >= current_end_page
          /\ ~needs_encoding(section_texts)
    /\ extracted_sections' = store_section(extracted_sections,
                                           chapter_sections[section_index],
                                           section_texts, desired_chapter, max_tokens)
    /\ section_texts' = <<>>
    /\ IF section_index < Len(chapter_sections)
       THEN /\ section_index' = section_index + 1
            /\ batch_start' = start_page(chapter_sections, section_index + 1, page_offset)
            /\ UNCHANGED ex_pc
       ELSE /\ ex_pc' = "distribute"
            /\ UNCHANGED <<section_index, batch_start>>
    /\ rm_pc' = "loop"
    /\ UNCHANGED <<rm_cpu, rm_memory, rm_sleeps, rm_target, rm_page>>
    /\ UNCHANGED <<chapter_sections, pdf_limit, question_distribution,
                   ex_requested, ex_fetched, ex_error>>
    /\ UNCHANGED exInputs
    /\ UNCHANGED <<dqVars, offVars, tocVars, ecVars>>

PcNext ==
    \/ ExStart
    \/ PcBatchThrottle
    \/ RmCheck
    \/ PcBatchBody
    \/ PcPageThrottle
    \/ PcPageBody
    \/ PcBatchEnd
    \/ PcEncodeThrottle
    \/ PcStoreSection
    \/ ExDistribute

SpecPaced == PcInit /\ [][PcNext]_vars

\* What the call reads and returns as a function of its arguments alone:
\* the page numbers of section i, and the dictionary after sections 1..i.
UnpacedPages(i) ==
    RangeSeq(start_page(chapter_sections, i, page_offset),
             end_page(chapter_sections, i, page_offset, pdf_limit))

RECURSIVE UnpacedSections(_)
UnpacedSections(i) ==
    IF i = 0 THEN <<>>
    ELSE store_section(UnpacedSections(i - 1), chapter_sections[i],
                       process_page_batch(ex_doc, UnpacedPages(i)),
                       desired_chapter, max_tokens)

UnpacedRequested ==
    Flatten([i \in 1..Len(chapter_sections) |->
                [k \in 1..Len(UnpacedPages(i)) |-> <<i, UnpacedPages(i)[k]>>]])

UnpacedFetched ==
    Flatten([i \in 1..Len(chapter_sections) |-> pages_fetched(ex_doc, UnpacedPages(i), i)])

\* a guarded body is about to run
BodyCleared == rm_pc \in {"batch", "page", "encode"}

\* C26: resource pacing never alters results: whatever the outcomes of the
\* resource checks, the call reads the same pages in the same order and
\* returns the same sections and distribution, and a guarded body runs only
\* after a check that found CPU and memory below their thresholds.
C26_PacingNeverAltersResults ==
    /\ ex_pc = "returned" =>
          /\ ex_requested = UnpacedRequested
          /\ ex_fetched = UnpacedFetched
          /\ extracted_sections = UnpacedSections(Len(chapter_sections))
          /\ question_distribution =
                distribute_questions(
                    [k \in 1..Len(extracted_sections) |->
                         content_length(extracted_sections[k].text)],
                    total_questions)
    /\ BodyCleared => (rm_cpu < 70 /\ rm_memory < 80)

\* a call that slept as often as it may returned sections
C26_Witness ==
    /\ ex_pc = "returned"
    /\ rm_sleeps = MaxSleeps
    /\ Len(extracted_sections) >= 2
    /\ Len(ex_fetched) >= 2

\* ---------------------------------------------------------------------------
\* distribute_questions with longer sections and a larger quota: operands at
\* which the double product of the proportional share differs from the exact
\* share.

MaxQuota == 25

\* Content lengths of the longer sections.
LongLengths == {1, 13, 30}

DpInit ==
    /\ dq_lengths \in UNION {[1..n -> LongLengths] : n \in 1..MaxSections}
    /\ dq_total \in 0..MaxQuota
    /\ questions_per_section = <<>>
    /\ dq_pc = "call"
    /\ OffIdle
    /\ ExIdle
    /\ TocIdle
    /\ EcIdle
    /\ RmIdle

SpecProportional == DpInit /\ [][DQNext]_vars

\* The call took the proportional branch with text to share by.
ProportionalBranch ==
    /\ DQDone
    /\ dq_total >= Len(dq_lengths) * min_questions
    /\ SumSeq(dq_lengths) > 0

\* 1 + floor(len / total_chars * (total_questions - N)) for every section.
FloorShares ==
    [i \in 1..Len(dq_lengths) |->
        1 + exact_floor(dq_lengths[i], SumSeq(dq_lengths), dq_total - Len(dq_lengths))]

\* The floor shares, then the questions they leave over one each to the
\* longest sections in descending length order.
FloorSharesThenLongest ==
    LET r == dq_total - SumSeq(FloorShares)
    IN [i \in 1..Len(dq_lengths) |->
           FloorShares[i] + IF sections_by_length_rank(dq_lengths, i) <= r THEN 1 ELSE 0]

\* No section has fewer questions than a strictly shorter section.
NeverFewerThanShorter ==
    \A i, j \in 1..Len(dq_lengths) :
        dq_lengths[i] > dq_lengths[j] => questions_per_section[i] >= questions_per_section[j]

\* C27: in the proportional branch each section first gets
\* 1 + floor(len / total_chars * (total_questions - N)), the r questions left
\* over by truncation go one each to the r longest sections in descending
\* length order, and so no section ends with fewer questions than a strictly
\* shorter section.
C27_FloorSharesThenLongestSections ==
    ProportionalBranch =>
        /\ questions_per_section = FloorSharesThenLongest
        /\ NeverFewerThanShorter

\* ---------------------------------------------------------------------------
\* Pages read through a negative index.

\* C28: extract_chapter_sections reads only pages whose physical index lies in
\* [0, page count): no page is fetched through a negative page number, and the
\* text of a section holds no page other than the non-negative page numbers
\* requested for it, so no page counted from the end of the document.
C28_NoPageReadFromTheEnd ==
    /\ \A k \in 1..Len(ex_fetched) :
          /\ ex_fetched[k][2] >= 0
          /\ ex_fetched[k][3] = ex_fetched[k][2]
    /\ ExReturned =>
          \A i \in 1..Len(chapter_sections) :
             \A k \in 1..Len(StoredPages(i)) :
                \E r \in 1..Len(RequestedFor(i)) :
                   /\ RequestedFor(i)[r] >= 0
                   /\ RequestedFor(i)[r] = StoredPages(i)[k]

\* ---------------------------------------------------------------------------
\* Level-0 entries that are not numbered chapters.

\* C29: for a chapter that is present in the structure the call does not fail
\* because of other level-0 entries; an entry whose number is not an integer
\* (an appendix "A") is not the next chapter, also when the requested chapter
\* is the last numbered one.
C29_AppendixIsNotTheNextChapter ==
    ChapterEntries(desired_chapter) # <<>> => ex_pc # "raised"

\* ---------------------------------------------------------------------------
\* Where the returned pages start.

\* the returned pages are not before the page the existence probe stopped at
ReturnedAtOrAfterProbe ==
    \A p \in toc_return : p >= toc_start_page

\* the lowest returned page holds no skip term
LowestReturnedHasNoSkipTerm ==
    ~has_skip_term(page(toc_doc, min_page(toc_return)))

\* C30: every page index returned by find_toc_pages is at or after the first
\* page that passed the existence probe, and the lowest returned page never
\* contains a skip term, whichever strategy produced the result.
C30_ReturnedPagesStartAtProbePage ==
    (TocReturned /\ toc_return # {}) =>
        /\ ReturnedAtOrAfterProbe
        /\ LowestReturnedHasNoSkipTerm

====
